---- MODULE Spec2Model ----
(***************************************************************************)
(* A state-machine model of the Brewin interpreter of interpreterv3.py.    *)
(*                                                                         *)
(* The interpreter is a recursive tree walker.  The model is the same     *)
(* walker written as an abstract machine: `ctl` is the point the walker   *)
(* is at (a statement to run, an expression to evaluate, a value or an    *)
(* order handed back, a host exception in flight) and `kont` is the stack *)
(* of suspended Python invocations (evaluate_statement,                   *)
(* evaluate_expression, Recipe.call_method, Instruction.call,             *)
(* Barista.run), the last element being the innermost.  Every frame keeps *)
(* the arguments its invocation was called with (me, super, exception,    *)
(* stack, parameters, fields), as the Python frame does.                  *)
(*                                                                         *)
(* Ingredient, Recipe (objects), Plate and the parameter dictionaries are *)
(* heap objects of the host; they live in the sequences boxes, objs,      *)
(* plates and params and are referred to by their index, so that two      *)
(* variables holding the same Ingredient are visible as such.             *)
(*                                                                         *)
(* The input programs are those of Programs, each with the input lines    *)
(* up to MaxInput.  A type name is the text of its token; the names with  *)
(* the concatenation character in them are those of at most              *)
(* MaxTypeArgs + 1 segments, and a template is compiled inside another no  *)
(* deeper than MaxCompileDepth.                                            *)
(***************************************************************************)
EXTENDS Integers, Sequences, FiniteSets

VARIABLES
    prog,       \* the program handed to Barista.run (index into Programs)
    inp,        \* the lines the input provider has not handed out yet
    phase,      \* "register", "build", "start", "run", "done", "error", "crash"
    loadIdx,    \* position of the second loop of Barista.run
    classes,    \* Barista.classes: name -> class definition or placeholder
    templates,  \* Barista.templates: name -> template or placeholder
    objs,       \* heap of Recipe copies (objects and their parent parts)
    boxes,      \* heap of Ingredient
    plates,     \* heap of Plate
    params,     \* heap of the parameter dictionaries of Instruction.call
    ctl,        \* where the tree walker is
    kont,       \* suspended invocations, innermost last
    out,        \* lines given to the output sink
    errType,    \* error kind given to the error sink ("" when none)
    errLine,    \* line given to the error sink
    nstmt       \* number of statements evaluate_statement has started

vars == <<prog, inp, phase, loadIdx, classes, templates, objs, boxes, plates, params,
          ctl, kont, out, errType, errLine, nstmt>>

\* Largest integer the input provider hands to the programs that read one.
MaxInput == 2
\* Largest number of type arguments in a type name.
MaxTypeArgs == 2
\* Largest number of template compilations one inside the other.
MaxCompileDepth == 3

Digit(d) == CASE d = 0 -> "0" [] d = 1 -> "1" [] d = 2 -> "2" [] d = 3 -> "3"
              [] d = 4 -> "4" [] d = 5 -> "5" [] d = 6 -> "6" [] d = 7 -> "7"
              [] d = 8 -> "8" [] OTHER -> "9"
RECURSIVE NatStr(_)
NatStr(n) == IF n < 10 THEN Digit(n) ELSE NatStr(n \div 10) \o Digit(n % 10)
\* str() of a Python int
IntStr(n) == IF n < 0 THEN "-" \o NatStr(0 - n) ELSE NatStr(n)

(***************************************************************************)
(* Tokens and the abstract syntax tree the parser hands to the core.      *)
(* A token is kept with the reading Ingredient.__init__ gives it: lit is  *)
(* "int", "str", "bool", "null", or "none" when int() rejects the text.    *)
(***************************************************************************)
Id(n)    == [op |-> "tok", name |-> n, lit |-> "none", i |-> 0, s |-> "", line |-> 0]
IntL(n)  == [op |-> "tok", name |-> "", lit |-> "int", i |-> n, s |-> "", line |-> 0]
StrL(x)  == [op |-> "tok", name |-> "", lit |-> "str", i |-> 0, s |-> x, line |-> 0]
TrueL    == [op |-> "tok", name |-> "", lit |-> "bool", i |-> 1, s |-> "", line |-> 0]
FalseL   == [op |-> "tok", name |-> "", lit |-> "bool", i |-> 0, s |-> "", line |-> 0]
NullL    == [op |-> "tok", name |-> "", lit |-> "null", i |-> 0, s |-> "", line |-> 0]
Me       == [op |-> "me", line |-> 0]
Super    == [op |-> "super", line |-> 0]
Exc      == [op |-> "exception", line |-> 0]
New(c)   == [op |-> "new", name |-> c, line |-> 0]
Un(o, e) == [op |-> "un", o |-> o, e |-> e, line |-> 0]
Bin(o, l, r) == [op |-> "bin", o |-> o, l |-> l, r |-> r, line |-> 0]
Call(t, m, as) == [op |-> "call", target |-> t, method |-> m, args |-> as, line |-> 0]

Begin(ss)      == [op |-> "begin", ss |-> ss, line |-> 0]
If(c, t)       == [op |-> "if", cond |-> c, then |-> t, line |-> 0]
IfElse(c, t, e) == [op |-> "ifelse", cond |-> c, then |-> t, else |-> e, line |-> 0]
While(c, b)    == [op |-> "while", cond |-> c, body |-> b, line |-> 0]
InputI(v)      == [op |-> "inputi", var |-> v, line |-> 0]
InputS(v)      == [op |-> "inputs", var |-> v, line |-> 0]
Output(as)     == [op |-> "print", args |-> as, line |-> 0]
Return         == [op |-> "return0", line |-> 0]
ReturnE(e)     == [op |-> "return", e |-> e, line |-> 0]
Set(v, e)      == [op |-> "set", var |-> v, e |-> e, line |-> 0]
Let(ds, ss)    == [op |-> "let", defs |-> ds, ss |-> ss, line |-> 0]
Throw(e)       == [op |-> "throw", e |-> e, line |-> 0]
Try(b, h)      == [op |-> "try", body |-> b, handler |-> h, line |-> 0]
At(l, node)    == [node EXCEPT !.line = l]

\* (T name init) and (T name) of a let, (field T name init) and (field T name)
Var(t, n, v)   == [btype |-> t, name |-> n, has_init |-> TRUE, init |-> v]
Var0(t, n)     == [btype |-> t, name |-> n, has_init |-> FALSE, init |-> NullL]
Field(t, n, v) == [m |-> "field", btype |-> t, name |-> n, has_init |-> TRUE, init |-> v, line |-> 0]
Field0(t, n)   == [m |-> "field", btype |-> t, name |-> n, has_init |-> FALSE, init |-> NullL, line |-> 0]
Formal(t, n)   == [btype |-> t, name |-> n]
Method(t, n, fs, body) ==
    [m |-> "method", btype |-> t, name |-> n, formals |-> fs, body |-> body, line |-> 0]
Class(n, ms)   == [name |-> n, parent |-> "", members |-> ms, line |-> 0,
                   tclass |-> FALSE, field_types |-> <<>>]
ClassInh(n, p, ms) == [name |-> n, parent |-> p, members |-> ms, line |-> 0,
                       tclass |-> FALSE, field_types |-> <<>>]
\* (tclass name (type parameters) members)
TClass(n, ts, ms) == [name |-> n, parent |-> "", members |-> ms, line |-> 0,
                      tclass |-> TRUE, field_types |-> ts]

(***************************************************************************)
(* The programs the model runs: the programs of the tests and of the      *)
(* scenarios of the specification, and variations of them.  A statement   *)
(* carries its line where the model reports it.                           *)
(***************************************************************************)
Nonsense == [op |-> "nonsense", line |-> 0]

\* the type name at a place of a program written for one type name: the
\* name at the place in question, the class main at the others
TypeAt(place, site, btype) == IF place = site THEN btype ELSE "main"

\* tests/v2/test_polymorphism.py: a student reached through person slots
PPoly == <<
  Class("person", <<
    Field("string", "name", StrL("jane")),
    Method("void", "say_something", <<>>,
      Output(<<Id("name"), StrL(" says hi")>>)) >>),
  ClassInh("student", "person", <<
    Method("void", "say_something", <<>>,
      Output(<<StrL("Can I have a project extension?")>>)) >>),
  Class("main", <<
    Field("person", "p", NullL),
    Method("void", "foo", <<Formal("person", "p")>>,
      Call(Id("p"), "say_something", <<>>)),
    Method("void", "main", <<>>,
      Begin(<<Set("p", New("student")), Call(Me, "foo", <<Id("p")>>)>>)) >>) >>

\* scenario 3 of the specification: super dispatch preserves the receiver
PGetMe == <<
  Class("mammal", <<
    Method("mammal", "getMe", <<>>,
      ReturnE(Me)),
    Method("void", "who", <<>>,
      Output(<<StrL("mammal")>>)),
    Method("void", "callwho", <<>>,
      Call(Me, "who", <<>>)) >>),
  ClassInh("person", "mammal", <<
    Method("void", "who", <<>>,
      Output(<<StrL("person")>>)),
    Method("void", "up", <<>>,
      Call(Super, "callwho", <<>>)) >>),
  ClassInh("student", "person", <<
    Method("mammal", "getMe", <<>>,
      ReturnE(Call(Super, "getMe", <<>>))),
    Method("void", "who", <<>>,
      Output(<<StrL("student")>>)) >>),
  Class("main", <<
    Field("student", "s", NullL),
    Method("void", "main", <<>>,
      Begin(<<Set("s", New("student")), Output(<<Bin("==", Id("s"), Call(Id("s"), "getMe", <<>>))>>), Call(Id("s"), "callwho", <<>>), Call(Id("s"), "up", <<>>)>>)) >>) >>

\* tests/v3/test_exception_handling.py test_example1
PExample1 == <<
  Class("main", <<
    Method("void", "foo", <<>>,
      Begin(<<Output(<<StrL("hello")>>), At(6, Throw(StrL("I ran into a problem!"))), Output(<<StrL("goodbye")>>)>>)),
    Method("void", "bar", <<>>,
      Begin(<<Output(<<StrL("hi")>>), Call(Me, "foo", <<>>), Output(<<StrL("bye")>>)>>)),
    Method("void", "main", <<>>,
      Begin(<<Try(Call(Me, "bar", <<>>), Output(<<StrL("I got this exception: "), Exc>>)), Output(<<StrL("this runs whether or not an exception occurs")>>)>>)) >>) >>

\* tests/v3/test_exception_handling.py test_termination: throw inside a while
PTermination == <<
  Class("main", <<
    Method("void", "foo", <<>>,
      While(TrueL, Begin(<<Output(<<StrL("argh")>>), At(7, Throw(StrL("blah"))), Output(<<StrL("yay!")>>)>>))),
    Method("void", "bar", <<>>,
      Begin(<<Output(<<StrL("hello")>>), Call(Me, "foo", <<>>), Output(<<StrL("bye")>>)>>)),
    Method("void", "main", <<>>,
      Begin(<<Try(Call(Me, "bar", <<>>), Output(<<Exc>>)), Try(Output(<<StrL("quiet")>>), Output(<<StrL("not run")>>)), Output(<<StrL("woot!")>>)>>)) >>) >>

\* tests/v3/test_exception_handling.py test_nested, test_nested_throws, test_pass
PNested == <<
  Class("main", <<
    Method("string", "throws", <<>>,
      At(4, Throw(StrL("World!")))),
    Method("string", "regurgitate", <<>>,
      Try(Try(At(9, Throw(StrL("u"))), At(10, Throw(Bin("+", Exc, StrL("p"))))), Try(At(13, Throw(Exc)), ReturnE(Exc)))),
    Method("void", "main", <<>>,
      Begin(<<Output(<<Call(Me, "regurgitate", <<>>)>>), Try(At(22, Throw(Bin("+", StrL("Hello, "), Call(Me, "throws", <<>>)))), Output(<<Exc>>)), Try(Try(At(27, Throw(StrL("oof"))), Let(<<Var("int", "depth", IntL(1))>>, <<At(28, Throw(StrL("foo"))), Output(<<Id("depth")>>)>>)), Output(<<Exc>>))>>)) >>) >>

\* scenario 5 of the specification: a throw with no enclosing try
PUncaught == <<
  Class("main", <<
    Method("void", "thrower", <<>>,
      At(3, Throw(StrL("x")))),
    Method("void", "main", <<>>,
      Begin(<<Output(<<StrL("a")>>), Try(Output(<<StrL("b")>>), Output(<<StrL("c")>>)), Call(Me, "thrower", <<>>), Output(<<StrL("d")>>)>>)) >>) >>

\* a null of a descendant type read into slots of an ancestor type
PAlias == <<
  Class("person", <<
    Method("person", "same", <<Formal("person", "q")>>,
      ReturnE(Id("q"))) >>),
  ClassInh("student", "person", <<
    Method("void", "hi", <<>>,
      Output(<<StrL("s")>>)) >>),
  Class("main", <<
    Field("student", "y", NullL),
    Field("person", "x", NullL),
    Field("student", "z", NullL),
    Field("int", "n", IntL(0)),
    Method("void", "main", <<>>,
      Begin(<<InputI("n"), If(Bin("==", Id("n"), IntL(0)), Set("x", Id("y"))), If(Bin("==", Id("n"), IntL(1)), Set("x", Call(New("person"), "same", <<Id("y")>>))), If(Bin("==", Id("n"), IntL(2)), Let(<<Var("person", "w", NullL)>>, <<Set("w", Id("y")), Set("y", New("student")), Set("w", Id("y"))>>)), Output(<<StrL("read")>>), Set("z", Id("y")), Output(<<StrL("done")>>)>>)) >>) >>

\* let frames: shadowing, exits by return and by exception, callee frames
PLet == <<
  Class("main", <<
    Field("int", "f", IntL(1)),
    Field("int", "a", IntL(100)),
    Method("int", "g", <<Formal("int", "a")>>,
      Begin(<<Let(<<Var("int", "a", IntL(5)), Var("int", "f", IntL(6))>>, <<Output(<<Id("a"), Id("f")>>), Let(<<Var("int", "a", IntL(9))>>, <<Set("a", IntL(10)), Set("f", IntL(7)), Output(<<Id("a")>>), If(Bin("==", Id("a"), IntL(10)), ReturnE(Bin("+", Id("a"), Id("f"))))>>), Output(<<StrL("no")>>)>>), Output(<<StrL("never")>>)>>)),
    Method("void", "h", <<Formal("int", "a")>>,
      Begin(<<Set("a", Bin("+", Id("a"), IntL(1))), Let(<<Var("string", "a", StrL("in"))>>, <<Try(Let(<<Var("int", "q", IntL(1)), Var("bool", "a", TrueL)>>, <<Output(<<Id("a")>>), At(20, Throw(StrL("e")))>>), Output(<<Exc, Id("a")>>)), InputS("a"), Output(<<Id("a")>>)>>), Output(<<Id("a"), Id("f")>>), Set("f", Id("a"))>>)),
    Method("void", "k", <<>>,
      Output(<<Id("x")>>)),
    Method("void", "main", <<>>,
      Begin(<<Let(<<Var("int", "x", IntL(3))>>, <<Output(<<Call(Me, "g", <<IntL(2)>>)>>), Call(Me, "h", <<IntL(41)>>), Output(<<Id("a"), Id("f"), Id("x")>>), Call(Me, "k", <<>>)>>)>>)) >>) >>

\* return inside while, let, try and handler
PReturn == <<
  Class("main", <<
    Field("int", "n", IntL(0)),
    Method("int", "f", <<Formal("int", "k")>>,
      Begin(<<Let(<<Var("int", "i", IntL(0))>>, <<While(Bin("<", Id("i"), IntL(5)), Try(Begin(<<If(Bin("==", Id("i"), Id("k")), ReturnE(Bin("*", Id("i"), IntL(10)))), If(Bin("==", Id("i"), IntL(1)), At(12, Throw(StrL("one")))), Set("i", Bin("+", Id("i"), IntL(1)))>>), Begin(<<Output(<<StrL("caught "), Exc>>), If(Bin("==", Id("k"), IntL(2)), ReturnE(IntL(77))), Set("i", Bin("+", Id("i"), IntL(1)))>>)))>>), Output(<<StrL("after let")>>), ReturnE(Bin("-", IntL(0), IntL(1)))>>)),
    Method("void", "v", <<Formal("int", "k")>>,
      Begin(<<While(TrueL, IfElse(Bin(">", Id("k"), IntL(0)), Return, Set("k", Bin("+", Id("k"), IntL(1))))), Output(<<StrL("not here")>>)>>)),
    Method("void", "main", <<>>,
      Begin(<<InputI("n"), Output(<<Call(Me, "f", <<Id("n")>>)>>), Call(Me, "v", <<Id("n")>>), Output(<<StrL("done")>>)>>)) >>) >>

\* system errors inside a try and inside a method of a class with a parent
PSysErr == <<
  Class("person", <<
    Method("void", "bad", <<Formal("int", "k")>>,
      Output(<<StrL("person.bad")>>)) >>),
  ClassInh("student", "person", <<
    Field("person", "nobody", NullL),
    Method("void", "bad", <<Formal("int", "k")>>,
      Begin(<<Output(<<StrL("bad1")>>), If(Bin("==", Id("k"), IntL(0)), Output(<<Bin("+", IntL(1), StrL("a"))>>)), If(Bin("==", Id("k"), IntL(1)), Output(<<Id("nosuch")>>)), If(Bin("==", Id("k"), IntL(2)), Call(Id("nobody"), "bad", <<IntL(0)>>)), If(Bin("==", Id("k"), IntL(3)), Begin(<<>>)), If(Bin("==", Id("k"), IntL(4)), Output(<<Bin("/", IntL(1), IntL(0))>>)), If(Bin("==", Id("k"), IntL(5)), At(16, Throw(IntL(1)))), If(Bin("==", Id("k"), IntL(6)), If(IntL(1), Output(<<StrL("x")>>))), If(Bin("==", Id("k"), IntL(7)), While(IntL(1), Output(<<StrL("x")>>))), If(Bin("==", Id("k"), IntL(8)), Output(<<Un("!", IntL(1))>>)), If(Bin("==", Id("k"), IntL(9)), Output(<<Call(IntL(1), "m", <<>>)>>)), If(Bin("==", Id("k"), IntL(10)), Output(<<New("nosuch")>>)), If(Bin("==", Id("k"), IntL(11)), Output(<<Call(Me, "none", <<>>)>>)), If(Bin("==", Id("k"), IntL(12)), Set("nosuch", IntL(1))), If(Bin("==", Id("k"), IntL(13)), Set("k", StrL("s"))), If(Bin("==", Id("k"), IntL(14)), Let(<<Var("int", "k", StrL("s"))>>, <<Output(<<Id("k")>>)>>)), If(Bin("==", Id("k"), IntL(15)), Nonsense), If(Bin("==", Id("k"), IntL(16)), InputI("nosuch")), If(Bin("==", Id("k"), IntL(17)), InputS("nosuch")), If(Bin("==", Id("k"), IntL(18)), InputS("k")), If(Bin("==", Id("k"), IntL(19)), Begin(<<InputI("k"), InputI("k")>>)), If(Bin("==", Id("k"), IntL(20)), Output(<<Exc>>)), Output(<<StrL("bad2")>>)>>)),
    Method("void", "none", <<>>,
      Return) >>),
  Class("main", <<
    Field("int", "n", IntL(0)),
    Method("void", "main", <<>>,
      Begin(<<InputI("n"), Try(Call(New("student"), "bad", <<Id("n")>>), Output(<<StrL("caught")>>)), Output(<<StrL("end")>>)>>)) >>) >>

\* methods of one name along the chain with different signatures
PFall == <<
  Class("person", <<
    Method("string", "m", <<Formal("string", "a")>>,
      Begin(<<Output(<<StrL("person.m "), Id("a")>>), ReturnE(Id("a"))>>)),
    Method("int", "r", <<>>,
      Begin(<<Output(<<StrL("person.r")>>), ReturnE(IntL(7))>>)),
    Method("int", "two", <<Formal("int", "a"), Formal("int", "b")>>,
      ReturnE(Bin("+", Id("a"), Id("b")))) >>),
  ClassInh("student", "person", <<
    Method("string", "m", <<Formal("int", "a")>>,
      Begin(<<Output(<<StrL("student.m")>>), ReturnE(StrL("x"))>>)),
    Method("int", "r", <<>>,
      Begin(<<Output(<<StrL("student.r")>>), ReturnE(StrL("str"))>>)),
    Method("int", "two", <<Formal("int", "a")>>,
      ReturnE(Id("a"))) >>),
  Class("main", <<
    Field("person", "p", NullL),
    Method("void", "main", <<>>,
      Begin(<<Set("p", New("student")), Output(<<Call(Id("p"), "m", <<StrL("s")>>)>>), Output(<<Call(Id("p"), "m", <<IntL(1)>>)>>), Output(<<Call(Id("p"), "two", <<IntL(1), IntL(2)>>)>>), Output(<<Call(Id("p"), "r", <<>>)>>), Call(Id("p"), "nosuch", <<>>)>>)) >>) >>

\* operators, default values, a super without parent
PMisc == <<
  Class("main", <<
    Field0("bool", "b"),
    Field0("string", "s"),
    Method("int", "dflt", <<>>,
      Output(<<StrL("dflt")>>)),
    Method("main", "self", <<>>,
      Return),
    Method("void", "main", <<>>,
      Begin(<<Output(<<Bin("+", IntL(1), IntL(2)), Bin("-", IntL(1), IntL(2)), Bin("*", IntL(2), IntL(3)), Bin("/", IntL(7), IntL(2)), Bin("%", IntL(7), IntL(3)), Bin("/", Bin("-", IntL(0), IntL(7)), IntL(2)), Bin("%", Bin("-", IntL(0), IntL(7)), IntL(3))>>), Output(<<Bin("<", IntL(1), IntL(2)), Bin(">", IntL(1), IntL(2)), Bin("<=", IntL(2), IntL(2)), Bin(">=", IntL(1), IntL(2)), Bin("!=", IntL(1), IntL(2)), Bin("==", IntL(1), IntL(1))>>), Output(<<Bin("+", StrL("a"), StrL("b")), Bin("==", StrL("a"), StrL("a")), Bin("!=", StrL("a"), StrL("b")), Bin("==", TrueL, FalseL), Bin("&", TrueL, Id("b")), Bin("|", TrueL, Id("b")), Un("!", Id("b"))>>), Output(<<Call(Me, "dflt", <<>>), Bin("==", Call(Me, "self", <<>>), NullL), Bin("!=", Me, NullL), Id("s")>>), Output(<<>>), Call(Super, "dflt", <<>>)>>)) >>) >>

\* a class declared before the parent it names
PForward == <<
  ClassInh("student", "person", <<
    Method("void", "hi", <<>>,
      Output(<<StrL("student.hi")>>)) >>),
  Class("person", <<
    Method("void", "hello", <<>>,
      Output(<<StrL("person.hello")>>)) >>),
  Class("main", <<
    Method("void", "main", <<>>,
      Begin(<<Call(New("student"), "hi", <<>>), Call(New("student"), "hello", <<>>)>>)) >>) >>

\* tests/v2/test_miscellaneous.py test_duplicate
PDupClass == <<
  Class("c", <<
    Method("void", "m", <<>>,
      Return) >>),
  Class("c", <<
    Method("void", "m", <<>>,
      Return) >>),
  Class("main", <<
    Method("void", "main", <<>>,
      Call(New("c"), "m", <<>>)) >>) >>

\* no class main
PNoMain == <<
  Class("c", <<
    Field("int", "x", IntL(1)) >>) >>

\* a class main without the method main
PNoMainMethod == <<
  Class("main", <<
    Method("void", "start", <<>>,
      Output(<<StrL("start")>>)) >>) >>

\* a method main with a parameter
PMainArgs == <<
  Class("main", <<
    Method("void", "main", <<Formal("int", "a")>>,
      Output(<<Id("a")>>)) >>) >>

\* a method main that returns a value of another type than it declares
PMainType == <<
  Class("main", <<
    Method("int", "main", <<>>,
      ReturnE(StrL("s"))) >>) >>

\* default return values: test_default_return_values.py, a class type, a void method used as a value
PDefault == <<
  Class("main", <<
    Method("int", "value_or_zero", <<Formal("int", "q")>>,
      Begin(<<IfElse(Bin("<", Id("q"), IntL(0)), Output(<<StrL("q is less than zero")>>), ReturnE(Id("q")))>>)),
    Method("int", "foo", <<>>,
      Output(<<StrL("hi")>>)),
    Method("string", "bar", <<>>,
      Return),
    Method("bool", "baz", <<Formal("bool", "q")>>,
      IfElse(Id("q"), Return, ReturnE(TrueL))),
    Method("main", "self", <<>>,
      While(TrueL, Return)),
    Method("void", "nothing", <<>>,
      Output(<<StrL("nothing")>>)),
    Method("void", "main", <<>>,
      Begin(<<Output(<<Call(Me, "value_or_zero", <<IntL(10)>>)>>), Output(<<Call(Me, "value_or_zero", <<IntL(0 - 10)>>)>>), Output(<<Call(Me, "foo", <<>>)>>), Output(<<Call(Me, "bar", <<>>)>>), Output(<<Call(Me, "baz", <<FalseL>>)>>), Output(<<Call(Me, "baz", <<TrueL>>)>>), Output(<<Bin("==", Call(Me, "self", <<>>), NullL)>>), Call(Me, "nothing", <<>>), Output(<<Call(Me, "nothing", <<>>)>>), Output(<<StrL("not here")>>)>>)) >>) >>

\* objects of one class and their fields: new, set and inputi on fields, a later new
PObjects == <<
  Class("animal", <<
    Field("int", "legs", IntL(4)),
    Method("void", "setlegs", <<Formal("int", "n")>>,
      Set("legs", Id("n"))),
    Method("void", "readlegs", <<>>,
      InputI("legs")),
    Method("int", "getlegs", <<>>,
      ReturnE(Id("legs"))) >>),
  ClassInh("dog", "animal", <<
    Field("string", "name", StrL("rex")),
    Field0("dog", "friend"),
    Method("void", "rename", <<Formal("string", "s")>>,
      Set("name", Id("s"))),
    Method("void", "readname", <<>>,
      InputS("name")),
    Method("string", "getname", <<>>,
      ReturnE(Id("name"))),
    Method("dog", "getfriend", <<>>,
      ReturnE(Id("friend"))),
    Method("void", "check", <<>>,
      Let(<<Var0("dog", "d")>>, <<Set("d", Id("friend")), Output(<<StrL("friend is a dog")>>)>>)) >>),
  Class("main", <<
    Field0("animal", "pet"),
    Field0("dog", "a"),
    Field0("dog", "b"),
    Method("void", "show", <<Formal("dog", "d")>>,
      Output(<<Call(Id("d"), "getname", <<>>), StrL(" "), Call(Id("d"), "getlegs", <<>>)>>)),
    Method("void", "main", <<>>,
      Begin(<<Set("a", New("dog")), Set("b", New("dog")), Call(Id("a"), "readlegs", <<>>), Call(Id("a"), "rename", <<StrL("fido")>>), Call(Me, "show", <<Id("a")>>), Call(Me, "show", <<Id("b")>>), Call(Id("b"), "readname", <<>>), Call(Me, "show", <<Id("a")>>), Call(Me, "show", <<Id("b")>>), Set("b", New("dog")), Call(Me, "show", <<Id("b")>>), Call(Id("b"), "check", <<>>), Set("pet", Call(Id("b"), "getfriend", <<>>)), Call(Id("b"), "check", <<>>), Output(<<StrL("done")>>)>>)) >>) >>

\* template classes in use: two templates, one inside the other, objects of their instantiations
PTemplate == <<
  TClass("box", <<"T">>, <<
    Field0("T", "v"),
    Method("T", "get", <<>>,
      ReturnE(Id("v"))),
    Method("void", "put", <<Formal("T", "x")>>,
      Set("v", Id("x"))) >>),
  TClass("pair", <<"A", "B">>, <<
    Field0("box@A", "first"),
    Field0("B", "second"),
    Method("void", "init", <<Formal("A", "x"), Formal("B", "y")>>,
      Begin(<<Set("first", New("box@A")), Call(Id("first"), "put", <<Id("x")>>), Set("second", Id("y"))>>)),
    Method("A", "fst", <<>>,
      ReturnE(Call(Id("first"), "get", <<>>))),
    Method("B", "snd", <<>>,
      ReturnE(Id("second"))) >>),
  Class("main", <<
    Field0("box@int", "b"),
    Method("void", "main", <<>>,
      Let(<<Var0("box@int", "c"), Var0("pair@int@string", "p"), Var0("pair@int@string", "q")>>, <<Set("b", New("box@int")), Set("c", New("box@int")), Call(Id("b"), "put", <<IntL(5)>>), Output(<<Call(Id("b"), "get", <<>>), Call(Id("c"), "get", <<>>)>>), Set("p", New("pair@int@string")), Call(Id("p"), "init", <<IntL(1), StrL("one")>>), Set("q", New("pair@int@string")), Output(<<Call(Id("p"), "fst", <<>>), Call(Id("p"), "snd", <<>>), Call(Id("q"), "snd", <<>>)>>), Output(<<Bin("==", Id("b"), Id("c"))>>)>>)) >>) >>

\* one type name at one of the places a type name can stand: field, return type, formal, let-local, new
PTypeUse(site, btype) == <<
  TClass("box", <<"T">>, <<
    Field0("T", "v"),
    Method("T", "get", <<>>,
      ReturnE(Id("v"))) >>),
  TClass("tag", <<"T">>, <<
    Field("int", "n", IntL(7)),
    Method("void", "show", <<>>,
      Output(<<StrL("tag "), Id("n")>>)) >>),
  Class("main", <<
    Field0(TypeAt("field0", site, btype), "a"),
    Field(TypeAt("field", site, btype), "b", NullL),
    Method(TypeAt("return", site, btype), "r", <<>>,
      ReturnE(NullL)),
    Method("void", "p", <<Formal(TypeAt("param", site, btype), "x")>>,
      Output(<<StrL("p")>>)),
    Method("void", "main", <<>>,
      Let(<<Var0(TypeAt("local0", site, btype), "l"), Var(TypeAt("local", site, btype), "m", NullL)>>, <<Output(<<StrL("loaded")>>), Call(Me, "r", <<>>), Call(Me, "p", <<NullL>>), Output(<<Bin("!=", New(TypeAt("new", site, btype)), NullL)>>), Output(<<StrL("done")>>)>>)) >>),
  Class("later", <<
    Field0("int", "z") >>),
  TClass("after", <<"T">>, <<
    Field0("T", "v") >>) >>

\* the exception identifier after a try: inside a handler, after a try whose handler ran, after one whose handler did not
PScope == <<
  Class("main", <<
    Method("void", "main", <<>>,
      Begin(<<Try(At(6, Throw(StrL("outer"))), Begin(<<Output(<<Exc>>), Try(At(9, Throw(StrL("inner"))), Output(<<Exc>>)), Output(<<Exc>>), Try(Output(<<StrL("quiet")>>), Output(<<StrL("never")>>)), Output(<<Exc>>)>>)), Try(Output(<<StrL("calm")>>), Output(<<StrL("never")>>)), Output(<<StrL("after: "), Exc>>)>>)) >>) >>

\* a call on null, as a statement and as an expression, with an argument that prints when it is evaluated
PNullCall == <<
  Class("main", <<
    Field("main", "other", NullL),
    Field("int", "which", IntL(0)),
    Method("int", "noisy", <<>>,
      Begin(<<Output(<<StrL("argument evaluated")>>), ReturnE(IntL(1))>>)),
    Method("int", "take", <<Formal("int", "x")>>,
      Begin(<<Output(<<StrL("body runs")>>), ReturnE(Id("x"))>>)),
    Method("void", "main", <<>>,
      Begin(<<InputI("which"), Output(<<Call(Me, "take", <<Call(Me, "noisy", <<>>)>>)>>), If(Bin("==", Id("which"), IntL(0)), Call(Id("other"), "take", <<Call(Me, "noisy", <<>>)>>)), If(Bin("==", Id("which"), IntL(1)), Output(<<Call(Id("other"), "take", <<Call(Me, "noisy", <<>>)>>)>>)), Call(NullL, "take", <<Call(Me, "noisy", <<>>)>>)>>)) >>) >>

\* tests/test_misc.py test_our_first_brewin_program, test_field_and_method_with_same_name: factorial with a while loop
PFactorial == <<
  Class("main", <<
    Field("int", "num", IntL(0)),
    Field("int", "result", IntL(1)),
    Method("void", "main", <<>>,
      Begin(<<Output(<<StrL("Enter a number: ")>>), InputI("num"), Output(<<Id("num"), StrL(" factorial is "), Call(Me, "factorial", <<Id("num")>>)>>)>>)),
    Method("int", "factorial", <<Formal("int", "n")>>,
      Begin(<<Set("result", IntL(1)), While(Bin(">", Id("n"), IntL(0)), Begin(<<Set("result", Bin("*", Id("n"), Id("result"))), Set("n", Bin("-", Id("n"), IntL(1)))>>)), ReturnE(Id("result"))>>)) >>) >>

\* two templates with one name
PDupTemplate == <<
  TClass("box", <<"T">>, <<
    Field0("T", "v") >>),
  Class("main", <<
    Method("void", "main", <<>>,
      Output(<<StrL("main runs")>>)) >>),
  TClass("box", <<"T">>, <<
    Field0("T", "w") >>) >>

\* tests/v2/test_miscellaneous.py test_duplicate: two fields of one class with one name
PDupField == <<
  Class("main", <<
    Method("void", "main", <<>>,
      Output(<<StrL("main runs")>>)) >>),
  Class("thing", <<
    Field("int", "x", IntL(1)),
    Field("string", "y", StrL("a")),
    Field("string", "x", StrL("b")) >>) >>

\* tests/v2/test_miscellaneous.py test_duplicate: two methods of one class with one name
PDupMethod == <<
  Class("main", <<
    Method("void", "main", <<>>,
      Output(<<StrL("main runs")>>)) >>),
  Class("thing", <<
    Method("void", "f", <<>>,
      Output(<<StrL("f")>>)),
    Method("int", "g", <<>>,
      ReturnE(IntL(1))),
    Method("int", "f", <<Formal("int", "x")>>,
      ReturnE(Id("x"))) >>) >>

\* tests/v2/test_miscellaneous.py test_duplicate_parameter: two formals of one method with one name
PDupFormal == <<
  Class("main", <<
    Method("void", "main", <<>>,
      Output(<<StrL("main runs")>>)) >>),
  Class("thing", <<
    Method("int", "f", <<Formal("int", "x"), Formal("string", "y"), Formal("bool", "x")>>,
      ReturnE(IntL(1))) >>) >>

\* two locals of one let with one name; a let inside with the name again is another frame
PDupLocal == <<
  Class("main", <<
    Method("void", "main", <<>>,
      Begin(<<Let(<<Var("int", "x", IntL(1))>>, <<Let(<<Var("int", "x", IntL(2))>>, <<Output(<<StrL("inner "), Id("x")>>)>>), Output(<<StrL("outer "), Id("x")>>)>>), Try(Let(<<Var("int", "x", IntL(1)), Var("string", "y", StrL("a")), Var("bool", "x", TrueL)>>, <<Output(<<StrL("let runs")>>)>>), Output(<<StrL("handler runs")>>)), Output(<<StrL("main goes on")>>)>>)) >>) >>

\* a method that returns a value its return type refuses, in a class without a parent and in classes with one
PRetType == <<
  Class("lone", <<
    Method("int", "r", <<>>,
      Begin(<<Output(<<StrL("lone.r")>>), ReturnE(StrL("str"))>>)) >>),
  Class("base", <<
    Method("int", "other", <<>>,
      ReturnE(IntL(1))),
    Method("int", "w", <<Formal("int", "a")>>,
      ReturnE(Id("a"))) >>),
  ClassInh("derived", "base", <<
    Method("int", "r", <<>>,
      Begin(<<Output(<<StrL("derived.r")>>), ReturnE(StrL("str"))>>)),
    Method("void", "v", <<>>,
      Begin(<<Output(<<StrL("derived.v")>>), ReturnE(IntL(5))>>)),
    Method("int", "w", <<>>,
      Begin(<<Output(<<StrL("derived.w")>>), ReturnE(TrueL)>>)) >>),
  Class("main", <<
    Field("int", "which", IntL(0)),
    Field("lone", "l", NullL),
    Field("derived", "d", NullL),
    Method("void", "main", <<>>,
      Begin(<<InputI("which"), Set("l", New("lone")), Set("d", New("derived")), If(Bin("==", Id("which"), IntL(0)), Output(<<Call(Id("l"), "r", <<>>)>>)), If(Bin("==", Id("which"), IntL(1)), Output(<<Call(Id("d"), "r", <<>>)>>)), If(Bin("==", Id("which"), IntL(2)), Call(Id("d"), "v", <<>>)), If(Bin("==", Id("which"), IntL(3)), Output(<<Call(Id("d"), "w", <<>>)>>)), Output(<<StrL("end")>>)>>)) >>) >>

\* == and != on objects of related and of unrelated classes, the operands being variables, new objects, me and method results
PCompare == <<
  Class("animal", <<
    Method("animal", "self", <<>>,
      ReturnE(Me)) >>),
  ClassInh("dog", "animal", <<
    Method("void", "hi", <<>>,
      Output(<<StrL("dog")>>)) >>),
  Class("cat", <<
    Method("cat", "self", <<>>,
      ReturnE(Me)) >>),
  Class("main", <<
    Field("int", "which", IntL(0)),
    Field("dog", "d", NullL),
    Field("cat", "c", NullL),
    Field("animal", "a", NullL),
    Method("void", "main", <<>>,
      Begin(<<InputI("which"), Set("d", New("dog")), Set("c", New("cat")), Set("a", Id("d")), Output(<<Bin("==", Id("d"), Id("d")), Bin("==", Id("a"), Id("d")), Bin("!=", Id("d"), Id("a")), Bin("==", Id("d"), New("dog")), Bin("!=", New("animal"), Id("d")), Bin("==", Call(Id("d"), "self", <<>>), Id("a")), Bin("==", Me, Me)>>), If(Bin("==", Id("which"), IntL(0)), Output(<<Bin("==", Id("d"), Id("c"))>>)), If(Bin("==", Id("which"), IntL(1)), Output(<<Bin("==", Id("d"), New("cat"))>>)), If(Bin("==", Id("which"), IntL(2)), Output(<<Bin("!=", Id("c"), Me)>>)), If(Bin("==", Id("which"), IntL(3)), Output(<<Bin("==", New("cat"), Id("d"))>>)), Output(<<StrL("end")>>)>>)) >>) >>

\* a method called from a handler reads exception without a handler of its own
PLeak == <<
  Class("main", <<
    Method("void", "show", <<Formal("string", "e")>>,
      Output(<<StrL("passed "), Id("e")>>)),
    Method("void", "peek", <<>>,
      Output(<<StrL("callee sees "), Exc>>)),
    Method("void", "main", <<>>,
      Try(At(7, Throw(StrL("boom"))), Begin(<<Call(Me, "show", <<Exc>>), Call(Me, "peek", <<>>), Output(<<StrL("end")>>)>>))) >>) >>

\* a chain of three classes with calls on super in the middle one, and super in a class without a parent
PSuper3 == <<
  Class("mammal", <<
    Method("void", "name", <<>>,
      Output(<<StrL("mammal")>>)),
    Method("void", "kind", <<>>,
      Output(<<StrL("mammal kind")>>)) >>),
  ClassInh("person", "mammal", <<
    Method("void", "name", <<>>,
      Begin(<<Output(<<StrL("person")>>), Call(Super, "name", <<>>)>>)),
    Method("void", "who", <<>>,
      Call(Super, "name", <<>>)),
    Method("void", "kind", <<>>,
      Output(<<StrL("person kind")>>)),
    Method("void", "ask", <<>>,
      Call(Super, "kind", <<>>)) >>),
  ClassInh("student", "person", <<
    Method("void", "name", <<>>,
      Begin(<<Output(<<StrL("student")>>), Call(Super, "name", <<>>)>>)),
    Method("void", "kind", <<>>,
      Output(<<StrL("student kind")>>)) >>),
  Class("main", <<
    Field("student", "s", NullL),
    Method("void", "main", <<>>,
      Begin(<<Set("s", New("student")), Call(Id("s"), "name", <<>>), Call(Id("s"), "who", <<>>), Call(Id("s"), "ask", <<>>), Call(Super, "name", <<>>), Output(<<StrL("end")>>)>>)) >>) >>

\* a template whose members name the instantiation being compiled
PSelfRef == <<
  TClass("node", <<"T">>, <<
    Field0("node@T", "next"),
    Field0("T", "v"),
    Method("node@T", "tail", <<>>,
      ReturnE(Id("next"))),
    Method("void", "link", <<Formal("node@T", "n")>>,
      Let(<<Var0("node@T", "m")>>, <<Set("next", Id("n"))>>)) >>),
  Class("main", <<
    Method("void", "main", <<>>,
      Let(<<Var0("node@int", "a"), Var0("node@int", "b")>>, <<Set("a", New("node@int")), Set("b", New("node@int")), Call(Id("a"), "link", <<Id("b")>>), Output(<<Bin("==", Call(Id("a"), "tail", <<>>), Id("b"))>>)>>)) >>) >>

\* a template whose method names the instantiation of itself with the type arguments exchanged
PPermuted == <<
  TClass("pair", <<"A", "B">>, <<
    Field0("A", "x"),
    Method("pair@B@A", "swap", <<>>,
      ReturnE(NullL)) >>),
  Class("main", <<
    Method("void", "main", <<>>,
      Begin(<<Output(<<StrL("in main")>>), Output(<<Bin("==", New("pair@int@string"), NullL)>>)>>)) >>) >>

\* two templates, each with a field of an instantiation of the other
PMutual == <<
  TClass("a", <<"T">>, <<
    Field0("b@T", "x") >>),
  TClass("b", <<"T">>, <<
    Field0("a@T", "y") >>),
  Class("main", <<
    Method("void", "main", <<>>,
      Begin(<<Output(<<StrL("in main")>>), Output(<<Bin("==", New("a@int"), NullL)>>)>>)) >>) >>

\* the segments of the type names of the programs
Atoms == {"A", "B", "T", "a", "after", "b", "box", "int", "later", "node", "nonesuch", "pair", "string", "tag"}

\* the programs, each with the inputs it is run with
Programs == <<
  [forms |-> PPoly, inputs |-> {<<>>}],
  [forms |-> PGetMe, inputs |-> {<<>>}],
  [forms |-> PExample1, inputs |-> {<<>>}],
  [forms |-> PTermination, inputs |-> {<<>>}],
  [forms |-> PNested, inputs |-> {<<>>}],
  [forms |-> PUncaught, inputs |-> {<<>>}],
  [forms |-> PAlias, inputs |-> {<<IntStr(n)>> : n \in 0..MaxInput}],
  [forms |-> PLet, inputs |-> {<<>>, <<"hi">>}],
  [forms |-> PReturn, inputs |-> {<<IntStr(n)>> : n \in 0..MaxInput}],
  [forms |-> PSysErr, inputs |-> {<<IntStr(n)>> : n \in 0..20} \cup {<<>>, <<"abc">>, <<"19", "7">>}],
  [forms |-> PFall, inputs |-> {<<>>}],
  [forms |-> PMisc, inputs |-> {<<>>}],
  [forms |-> PForward, inputs |-> {<<>>}],
  [forms |-> PDupClass, inputs |-> {<<>>}],
  [forms |-> PNoMain, inputs |-> {<<>>}],
  [forms |-> PNoMainMethod, inputs |-> {<<>>}],
  [forms |-> PMainArgs, inputs |-> {<<>>}],
  [forms |-> PMainType, inputs |-> {<<>>}],
  [forms |-> PDefault, inputs |-> {<<>>}],
  [forms |-> PObjects, inputs |-> {<<IntStr(n)>> : n \in 0..MaxInput}],
  [forms |-> PTemplate, inputs |-> {<<>>}],
  [forms |-> PTypeUse("field0", "later"), inputs |-> {<<>>}],
  [forms |-> PTypeUse("field0", "box@int"), inputs |-> {<<>>}],
  [forms |-> PTypeUse("field0", "box@later"), inputs |-> {<<>>}],
  [forms |-> PTypeUse("field0", "tag@int"), inputs |-> {<<>>}],
  [forms |-> PTypeUse("field0", "after@int"), inputs |-> {<<>>}],
  [forms |-> PTypeUse("field0", "nonesuch"), inputs |-> {<<>>}],
  [forms |-> PTypeUse("field0", "box"), inputs |-> {<<>>}],
  [forms |-> PTypeUse("field0", "box@nonesuch"), inputs |-> {<<>>}],
  [forms |-> PTypeUse("field0", "box@int@int"), inputs |-> {<<>>}],
  [forms |-> PTypeUse("field0", "nonesuch@int"), inputs |-> {<<>>}],
  [forms |-> PTypeUse("field0", "box@box"), inputs |-> {<<>>}],
  [forms |-> PTypeUse("field0", "tag@tag"), inputs |-> {<<>>}],
  [forms |-> PTypeUse("field", "later"), inputs |-> {<<>>}],
  [forms |-> PTypeUse("field", "box@int"), inputs |-> {<<>>}],
  [forms |-> PTypeUse("field", "box@later"), inputs |-> {<<>>}],
  [forms |-> PTypeUse("field", "tag@int"), inputs |-> {<<>>}],
  [forms |-> PTypeUse("field", "after@int"), inputs |-> {<<>>}],
  [forms |-> PTypeUse("field", "nonesuch"), inputs |-> {<<>>}],
  [forms |-> PTypeUse("field", "box"), inputs |-> {<<>>}],
  [forms |-> PTypeUse("field", "box@nonesuch"), inputs |-> {<<>>}],
  [forms |-> PTypeUse("field", "box@int@int"), inputs |-> {<<>>}],
  [forms |-> PTypeUse("field", "nonesuch@int"), inputs |-> {<<>>}],
  [forms |-> PTypeUse("field", "box@box"), inputs |-> {<<>>}],
  [forms |-> PTypeUse("field", "tag@tag"), inputs |-> {<<>>}],
  [forms |-> PTypeUse("return", "later"), inputs |-> {<<>>}],
  [forms |-> PTypeUse("return", "box@int"), inputs |-> {<<>>}],
  [forms |-> PTypeUse("return", "box@later"), inputs |-> {<<>>}],
  [forms |-> PTypeUse("return", "tag@int"), inputs |-> {<<>>}],
  [forms |-> PTypeUse("return", "after@int"), inputs |-> {<<>>}],
  [forms |-> PTypeUse("return", "nonesuch"), inputs |-> {<<>>}],
  [forms |-> PTypeUse("return", "box"), inputs |-> {<<>>}],
  [forms |-> PTypeUse("return", "box@nonesuch"), inputs |-> {<<>>}],
  [forms |-> PTypeUse("return", "box@int@int"), inputs |-> {<<>>}],
  [forms |-> PTypeUse("return", "nonesuch@int"), inputs |-> {<<>>}],
  [forms |-> PTypeUse("return", "box@box"), inputs |-> {<<>>}],
  [forms |-> PTypeUse("return", "tag@tag"), inputs |-> {<<>>}],
  [forms |-> PTypeUse("param", "later"), inputs |-> {<<>>}],
  [forms |-> PTypeUse("param", "box@int"), inputs |-> {<<>>}],
  [forms |-> PTypeUse("param", "box@later"), inputs |-> {<<>>}],
  [forms |-> PTypeUse("param", "tag@int"), inputs |-> {<<>>}],
  [forms |-> PTypeUse("param", "after@int"), inputs |-> {<<>>}],
  [forms |-> PTypeUse("param", "nonesuch"), inputs |-> {<<>>}],
  [forms |-> PTypeUse("param", "box"), inputs |-> {<<>>}],
  [forms |-> PTypeUse("param", "box@nonesuch"), inputs |-> {<<>>}],
  [forms |-> PTypeUse("param", "box@int@int"), inputs |-> {<<>>}],
  [forms |-> PTypeUse("param", "nonesuch@int"), inputs |-> {<<>>}],
  [forms |-> PTypeUse("param", "box@box"), inputs |-> {<<>>}],
  [forms |-> PTypeUse("param", "tag@tag"), inputs |-> {<<>>}],
  [forms |-> PTypeUse("local0", "later"), inputs |-> {<<>>}],
  [forms |-> PTypeUse("local0", "box@int"), inputs |-> {<<>>}],
  [forms |-> PTypeUse("local0", "box@later"), inputs |-> {<<>>}],
  [forms |-> PTypeUse("local0", "tag@int"), inputs |-> {<<>>}],
  [forms |-> PTypeUse("local0", "after@int"), inputs |-> {<<>>}],
  [forms |-> PTypeUse("local0", "nonesuch"), inputs |-> {<<>>}],
  [forms |-> PTypeUse("local0", "box"), inputs |-> {<<>>}],
  [forms |-> PTypeUse("local0", "box@nonesuch"), inputs |-> {<<>>}],
  [forms |-> PTypeUse("local0", "box@int@int"), inputs |-> {<<>>}],
  [forms |-> PTypeUse("local0", "nonesuch@int"), inputs |-> {<<>>}],
  [forms |-> PTypeUse("local0", "box@box"), inputs |-> {<<>>}],
  [forms |-> PTypeUse("local0", "tag@tag"), inputs |-> {<<>>}],
  [forms |-> PTypeUse("local", "later"), inputs |-> {<<>>}],
  [forms |-> PTypeUse("local", "box@int"), inputs |-> {<<>>}],
  [forms |-> PTypeUse("local", "box@later"), inputs |-> {<<>>}],
  [forms |-> PTypeUse("local", "tag@int"), inputs |-> {<<>>}],
  [forms |-> PTypeUse("local", "after@int"), inputs |-> {<<>>}],
  [forms |-> PTypeUse("local", "nonesuch"), inputs |-> {<<>>}],
  [forms |-> PTypeUse("local", "box"), inputs |-> {<<>>}],
  [forms |-> PTypeUse("local", "box@nonesuch"), inputs |-> {<<>>}],
  [forms |-> PTypeUse("local", "box@int@int"), inputs |-> {<<>>}],
  [forms |-> PTypeUse("local", "nonesuch@int"), inputs |-> {<<>>}],
  [forms |-> PTypeUse("local", "box@box"), inputs |-> {<<>>}],
  [forms |-> PTypeUse("local", "tag@tag"), inputs |-> {<<>>}],
  [forms |-> PTypeUse("new", "later"), inputs |-> {<<>>}],
  [forms |-> PTypeUse("new", "box@int"), inputs |-> {<<>>}],
  [forms |-> PTypeUse("new", "box@later"), inputs |-> {<<>>}],
  [forms |-> PTypeUse("new", "tag@int"), inputs |-> {<<>>}],
  [forms |-> PTypeUse("new", "after@int"), inputs |-> {<<>>}],
  [forms |-> PTypeUse("new", "nonesuch"), inputs |-> {<<>>}],
  [forms |-> PTypeUse("new", "box"), inputs |-> {<<>>}],
  [forms |-> PTypeUse("new", "box@nonesuch"), inputs |-> {<<>>}],
  [forms |-> PTypeUse("new", "box@int@int"), inputs |-> {<<>>}],
  [forms |-> PTypeUse("new", "nonesuch@int"), inputs |-> {<<>>}],
  [forms |-> PTypeUse("new", "box@box"), inputs |-> {<<>>}],
  [forms |-> PTypeUse("new", "tag@tag"), inputs |-> {<<>>}],
  [forms |-> PScope, inputs |-> {<<>>}],
  [forms |-> PNullCall, inputs |-> {<<IntStr(n)>> : n \in 0..MaxInput}],
  [forms |-> PFactorial, inputs |-> {<<IntStr(n)>> : n \in 0..(MaxInput + 3)}],
  [forms |-> PDupTemplate, inputs |-> {<<>>}],
  [forms |-> PDupField, inputs |-> {<<>>}],
  [forms |-> PDupMethod, inputs |-> {<<>>}],
  [forms |-> PDupFormal, inputs |-> {<<>>}],
  [forms |-> PDupLocal, inputs |-> {<<>>}],
  [forms |-> PRetType, inputs |-> {<<IntStr(n)>> : n \in 0..MaxInput}],
  [forms |-> PCompare, inputs |-> {<<IntStr(n)>> : n \in 0..MaxInput}],
  [forms |-> PLeak, inputs |-> {<<>>}],
  [forms |-> PSuper3, inputs |-> {<<>>}],
  [forms |-> PSelfRef, inputs |-> {<<>>}],
  [forms |-> PPermuted, inputs |-> {<<>>}],
  [forms |-> PMutual, inputs |-> {<<>>}] >>

(***************************************************************************)
(* Values, variables, classes                                             *)
(***************************************************************************)

\* Ingredient.__init__: value, btype = None (""), is_super = False
MkBox(kind, i, s) == [kind |-> kind, i |-> i, s |-> s, btype |-> "", is_super |-> FALSE]
\* Ingredient(value) of a token: lit "none" is the ValueError of int()
LitBox(tok) == MkBox(tok.lit, tok.i, tok.s)

\* Ingredient.__str__
BoxStr(os, b) ==
    CASE b.kind = "bool" -> (IF b.i = 1 THEN "true" ELSE "false")
      [] b.kind = "null" -> "null"
      [] b.kind = "int"  -> IntStr(b.i)
      [] b.kind = "str"  -> b.s
      [] OTHER           -> "<class " \o os[b.i].name \o ">"

EmptyMap == [x \in {} |-> 0]
\* F of the value of v, the value taken once
Given(v, F(_)) == CHOOSE x \in {F(a) : a \in {v}} : TRUE
Put(f, k, v) == [x \in (DOMAIN f) \cup {k} |-> IF x = k THEN v ELSE f[x]]
Pop(s) == SubSeq(s, 1, Len(s) - 1)
Top(s) == s[Len(s)]

Placeholder == [built |-> FALSE, name |-> "", parent |-> "", fields |-> <<>>, methods |-> <<>>,
                oid |-> 0]

\* Recipe.is_instance on a class definition of the registry
RECURSIVE IsInstanceClass(_, _, _)
IsInstanceClass(reg, c, t) ==
    \/ c = t
    \/ /\ reg[c].parent # ""
       /\ IsInstanceClass(reg, reg[c].parent, t)

\* Recipe.is_instance on an object (a Recipe copy and its parent parts)
RECURSIVE IsInstance(_, _, _)
IsInstance(os, o, t) ==
    \/ os[o].name = t
    \/ /\ os[o].parent # 0
       /\ IsInstance(os, os[o].parent, t)

\* isVarType / isMethodType
PrimTypes == {"int", "string", "bool"}
isVarType(t, meName, reg) == t \in PrimTypes \cup {meName} \cup DOMAIN reg
isMethodType(t, meName, reg) == t \in PrimTypes \cup {"void", meName} \cup DOMAIN reg

\* TYPE_CONCAT_CHAR.join: the type name made of the segments
RECURSIVE Join(_)
Join(l) == IF Len(l) = 1 THEN l[1] ELSE l[1] \o "@" \o Join(Tail(l))

\* the lists of two and more segments, each with the type name it makes
TypeLists == UNION {[1..n -> Atoms] : n \in 2..(MaxTypeArgs + 1)}
TypeNames == {<<Join(l), l>> : l \in TypeLists}
Compound  == {Join(l) : l \in TypeLists}

\* T2L: btype.split(TYPE_CONCAT_CHAR), the segments whose join the name is;
\* a name without the character is its own only segment
T2L(btype) ==
    IF btype \in Compound
    THEN (CHOOSE p \in TypeNames : p[1] = btype)[2]
    ELSE <<btype>>

\* Formula.compile: the dictionary built from zip(field_types, types)
TypeMap(field_types, types) ==
    [x \in {field_types[k] : k \in 1..Len(field_types)} |->
        types[CHOOSE k \in 1..Len(field_types) :
                 /\ field_types[k] = x
                 /\ \A j \in 1..Len(field_types) : field_types[j] = x => j <= k]]

\* Formula.substitute_types on a token
RECURSIVE SubstituteToken(_, _)
SubstituteToken(t, type_map) ==
    LET l == T2L(t) IN
    IF t \in DOMAIN type_map THEN type_map[t]
    ELSE IF Len(l) > 1
    THEN Join([k \in 1..Len(l) |-> SubstituteToken(l[k], type_map)])
    ELSE t

\* Formula.substitute_types on a statement or an expression
RECURSIVE SubstituteNode(_, _)
SubstituteNode(n, tm) ==
    LET Each(s) == [k \in 1..Len(s) |-> SubstituteNode(s[k], tm)]
        Tok(t)  == SubstituteToken(t, tm)
    IN CASE n.op = "tok" -> IF n.lit = "none" THEN [n EXCEPT !.name = Tok(@)] ELSE n
         [] n.op = "new" -> [n EXCEPT !.name = Tok(@)]
         [] n.op = "un" -> [n EXCEPT !.e = SubstituteNode(@, tm)]
         [] n.op = "bin" -> [n EXCEPT !.l = SubstituteNode(@, tm), !.r = SubstituteNode(@, tm)]
         [] n.op = "call" -> [n EXCEPT !.target = SubstituteNode(@, tm), !.method = Tok(@),
                                       !.args = Each(@)]
         [] n.op \in {"begin"} -> [n EXCEPT !.ss = Each(@)]
         [] n.op = "if" -> [n EXCEPT !.cond = SubstituteNode(@, tm),
                                     !.then = SubstituteNode(@, tm)]
         [] n.op = "ifelse" -> [n EXCEPT !.cond = SubstituteNode(@, tm),
                                         !.then = SubstituteNode(@, tm),
                                         !.else = SubstituteNode(@, tm)]
         [] n.op = "while" -> [n EXCEPT !.cond = SubstituteNode(@, tm),
                                        !.body = SubstituteNode(@, tm)]
         [] n.op \in {"inputi", "inputs"} -> [n EXCEPT !.var = Tok(@)]
         [] n.op = "print" -> [n EXCEPT !.args = Each(@)]
         [] n.op = "return" -> [n EXCEPT !.e = SubstituteNode(@, tm)]
         [] n.op = "set" -> [n EXCEPT !.var = Tok(@), !.e = SubstituteNode(@, tm)]
         [] n.op = "let" ->
              [n EXCEPT !.defs = [k \in 1..Len(@) |->
                                     [@[k] EXCEPT !.btype = Tok(@), !.name = Tok(@)]],
                        !.ss = Each(@)]
         [] n.op = "throw" -> [n EXCEPT !.e = SubstituteNode(@, tm)]
         [] n.op = "try" -> [n EXCEPT !.body = SubstituteNode(@, tm),
                                      !.handler = SubstituteNode(@, tm)]
         [] OTHER -> n

\* Formula.substitute_types on the members of the body
SubstituteTypes(body, tm) ==
    [k \in 1..Len(body) |->
        IF body[k].m = "field"
        THEN [body[k] EXCEPT !.btype = SubstituteToken(@, tm), !.name = SubstituteToken(@, tm)]
        ELSE [body[k] EXCEPT !.btype = SubstituteToken(@, tm),
                             !.name = SubstituteToken(@, tm),
                             !.formals = [j \in 1..Len(@) |->
                                            [btype |-> SubstituteToken(@[j].btype, tm),
                                             name  |-> SubstituteToken(@[j].name, tm)]],
                             !.body = SubstituteNode(@, tm)]]

\* The test of Tin.set_value: TRUE when the value is stored, FALSE when
\* TypeError is raised.
SetValueOK(reg, os, btype, b) ==
    CASE btype = "int"    -> b.kind = "int"
      [] btype = "string" -> b.kind = "str"
      [] btype = "bool"   -> b.kind = "bool"
      [] OTHER ->
           IF b.kind = "null"
           THEN ~ (/\ b.btype # ""
                   /\ b.btype \in DOMAIN reg
                   /\ ~ IsInstanceClass(reg, b.btype, btype))
           ELSE IF b.kind = "obj" THEN IsInstance(os, b.i, btype)
           ELSE FALSE

\* The effect of a successful Tin.set_value on the Ingredient: it is the
\* caller's Ingredient that gets the btype of the variable.
Retag(bs, b, btype) == [bs EXCEPT ![b].btype = btype]

\* A Tin: the declared type and the Ingredient it holds.
Tin(btype, b) == [btype |-> btype, box |-> b]

\* one table of locals for the whole run: the latest plate that has the name
GetVariableFlat(ps, p, name) ==
    IF \E q \in 1..Len(ps) : name \in DOMAIN ps[q].locals
    THEN CHOOSE q \in 1..Len(ps) :
             /\ name \in DOMAIN ps[q].locals
             /\ \A r \in 1..Len(ps) : name \in DOMAIN ps[r].locals => r <= q
    ELSE 0

\* Plate.get_variable: the plate of the chain that has the name, 0 for None
RECURSIVE GetVariable(_, _, _)
GetVariable(ps, p, name) ==
    IF p = 0 THEN 0
    ELSE IF name \in DOMAIN ps[p].locals THEN p
    ELSE GetVariable(ps, ps[p].under, name)

\* The arguments evaluate_statement and evaluate_expression pass on.
Env(me, sup, exception, stack, parameters, fields) ==
    [me |-> me, super |-> sup, exception |-> exception, stack |-> stack,
     parameters |-> parameters, fields |-> fields]
NoEnv == Env(0, 0, 0, 0, 0, 0)

\* the search with the parameters before the stack
ResolveParamsFirst(name, env) ==
    LET p == GetVariable(plates, env.stack, name) IN
    IF name \in DOMAIN params[env.parameters] THEN [w |-> "param", id |-> env.parameters]
    ELSE IF p # 0 THEN [w |-> "plate", id |-> p]
    ELSE IF name \in DOMAIN objs[env.fields].fields THEN [w |-> "field", id |-> env.fields]
    ELSE [w |-> "none", id |-> 0]

\* The search of a variable done by an identifier read and by set, inputi
\* and inputs: stack, then parameters, then fields.  w = "none" when the
\* name is in none of them.
Resolve(name, env) ==
    LET p == GetVariable(plates, env.stack, name) IN
    IF p # 0 THEN [w |-> "plate", id |-> p]
    ELSE IF name \in DOMAIN params[env.parameters] THEN [w |-> "param", id |-> env.parameters]
    ELSE IF name \in DOMAIN objs[env.fields].fields THEN [w |-> "field", id |-> env.fields]
    ELSE [w |-> "none", id |-> 0]

\* The Tin a resolved name stands for.
TinOf(ref, name) ==
    CASE ref.w = "plate" -> plates[ref.id].locals[name]
      [] ref.w = "param" -> params[ref.id][name]
      [] OTHER           -> objs[ref.id].fields[name]

\* Method table of a Recipe: the method of that name, or none
HasMethod(cdef, name) == \E k \in 1..Len(cdef.methods) : cdef.methods[k].name = name
MethodOf(cdef, name) ==
    cdef.methods[CHOOSE k \in 1..Len(cdef.methods) : cdef.methods[k].name = name]

(***************************************************************************)
(* The point of the walk                                                  *)
(***************************************************************************)
NoNode == [op |-> "none", line |-> 0]
NoCall == [self |-> 0, name |-> "", args |-> <<>>, first_call |-> FALSE, me |-> 0,
           exception |-> 0, swallowed |-> <<>>]
Ctl(m, node, env, b, flag, exc, call) ==
    [m |-> m, node |-> node, env |-> env, box |-> b, flag |-> flag, exc |-> exc,
     call |-> call]
CStmt(node, env) == Ctl("stmt", node, env, 0, FALSE, "", NoCall)
CExpr(node, env) == Ctl("expr", node, env, 0, FALSE, "", NoCall)
CVal(b)          == Ctl("val", NoNode, NoEnv, b, FALSE, "", NoCall)
\* the order a statement returns: (is_return, Ingredient or None)
COrder(flag, b)  == Ctl("order", NoNode, NoEnv, b, flag, "", NoCall)
\* a call of Recipe.call_method / of Instruction.call about to start
CCallMethod(c)   == Ctl("call_method", NoNode, NoEnv, 0, FALSE, "", c)
CInstrCall(c)    == Ctl("call", NoNode, NoEnv, 0, FALSE, "", c)
\* the service a method call returns (0 for None)
CService(b)      == Ctl("service", NoNode, NoEnv, b, FALSE, "", NoCall)
\* a host exception in flight; b is the message of a Complaint
CRaise(exc, b)   == Ctl("raise", NoNode, NoEnv, b, FALSE, exc, NoCall)
CHalt            == Ctl("halt", NoNode, NoEnv, 0, FALSE, "", NoCall)

(***************************************************************************)
(* Loading: Barista.run up to the call of main.main                       *)
(***************************************************************************)
Program == Programs[prog].forms

\* what the construction of a definition ends with: nothing, an error
\* given to the error sink, or an exception of the host
NoErr == [err |-> "", line |-> 0, exc |-> ""]
Err(kind, line) == [err |-> kind, line |-> line, exc |-> ""]
Raised(exc) == [err |-> "", line |-> 0, exc |-> exc]
Failed(e) == e.err # "" \/ e.exc # ""

\* the value of a field or local declared without one
InitialValue(btype) ==
    CASE btype = "int"    -> MkBox("int", 0, "")
      [] btype = "string" -> MkBox("str", 0, "")
      [] btype = "bool"   -> MkBox("bool", 0, "")
      [] OTHER            -> MkBox("null", 0, "")

\* the class definition a Recipe(...) of the registry is: oid tells the
\* Recipe objects of a run apart
Definition(reg, name, parent, fields, methods) ==
    [built |-> TRUE, name |-> name, parent |-> parent, fields |-> fields,
     methods |-> methods,
     oid |-> Cardinality({n \in DOMAIN reg : reg[n].built}) + 1]

RECURSIVE Compile(_, _, _, _, _)
RECURSIVE BuildMembers(_, _, _, _, _, _)

\* The use of a type name in a declaration (Tin.__init__, Instruction.__init__,
\* add_parameter, a field or a local without a value): a known type, or the
\* instantiation of a template, which is compiled, or a TYPE error.  The
\* placeholder of a template that is not built yet is None, and None has no
\* compile.
UseType(btype, known, reg, tmpls, depth) ==
    LET l == T2L(btype) IN
    IF known THEN [e |-> NoErr, reg |-> reg]
    ELSE IF l[1] \in DOMAIN tmpls
    THEN IF ~ tmpls[l[1]].built
         THEN [e |-> Raised("AttributeError"), reg |-> reg]
         ELSE Given(Compile(tmpls[l[1]], Tail(l), reg, tmpls, depth), LAMBDA c :
                  IF c.e.exc = "ValueError"
                  THEN [e |-> Err("TYPE", 0), reg |-> c.reg]
                  ELSE c)
    ELSE [e |-> Err("TYPE", 0), reg |-> reg]

\* formals kept in a dict without a look at the names already there
RECURSIVE CheckFormalsLast(_, _, _, _, _, _)
CheckFormalsLast(fs, k, cname, reg, tmpls, depth) ==
    IF k > Len(fs) THEN [e |-> NoErr, reg |-> reg]
    ELSE Given(UseType(fs[k].btype, isVarType(fs[k].btype, cname, reg), reg, tmpls, depth),
               LAMBDA u : IF Failed(u.e) THEN u
                          ELSE CheckFormalsLast(fs, k + 1, cname, u.reg, tmpls, depth))

\* Instruction.__init__ and add_parameter: the formals, one after the other
RECURSIVE CheckFormals(_, _, _, _, _, _)
CheckFormals(fs, k, cname, reg, tmpls, depth) ==
    IF k > Len(fs) THEN [e |-> NoErr, reg |-> reg]
    ELSE IF \E j \in 1..(k - 1) : fs[j].name = fs[k].name
    THEN [e |-> Err("NAME", 0), reg |-> reg]
    ELSE Given(UseType(fs[k].btype, isVarType(fs[k].btype, cname, reg), reg, tmpls, depth),
               LAMBDA u : IF Failed(u.e) THEN u
                          ELSE CheckFormals(fs, k + 1, cname, u.reg, tmpls, depth))

\* Recipe.add_field: the error it reports, none when the field is added
AddFieldErr(m, acc, cname, tmpls, depth) ==
    IF \E j \in 1..Len(acc.fields) : acc.fields[j].name = m.name
    THEN [e |-> Err("NAME", m.line), reg |-> acc.reg]
    ELSE IF m.has_init /\ m.init.lit = "none"
    THEN [e |-> Err("SYNTAX", m.line), reg |-> acc.reg]
    ELSE Given(UseType(m.btype, isVarType(m.btype, cname, acc.reg), acc.reg, tmpls, depth),
               LAMBDA u :
                  IF Failed(u.e) THEN [u EXCEPT !.e.line = m.line]
                  ELSE IF ~ SetValueOK(u.reg, <<>>, m.btype,
                                       IF m.has_init THEN LitBox(m.init)
                                       ELSE InitialValue(m.btype))
                  THEN [e |-> Err("TYPE", m.line), reg |-> u.reg]
                  ELSE u)

\* a field without a value: the type is looked at before add_field is called
AddField0Err(m, acc, cname, tmpls, depth) ==
    Given(UseType(m.btype, isVarType(m.btype, cname, acc.reg), acc.reg, tmpls, depth),
          LAMBDA u :
             IF Failed(u.e) THEN [u EXCEPT !.e.line = m.line]
             ELSE Given([acc EXCEPT !.reg = u.reg],
                        LAMBDA a : AddFieldErr(m, a, cname, tmpls, depth)))

\* the value a field of the class definition holds
FieldValue(m) == IF m.has_init THEN LitBox(m.init) ELSE InitialValue(m.btype)

\* Recipe.add_method with Instruction.__init__
AddMethodErr(m, acc, cname, tmpls, depth) ==
    IF \E j \in 1..Len(acc.methods) : acc.methods[j].name = m.name
    THEN [e |-> Err("NAME", m.line), reg |-> acc.reg]
    ELSE Given(UseType(m.btype, isMethodType(m.btype, cname, acc.reg), acc.reg, tmpls, depth),
               LAMBDA u :
                  IF Failed(u.e) THEN [u EXCEPT !.e.line = m.line]
                  ELSE CheckFormals(m.formals, 1, cname, u.reg, tmpls, depth))

\* the loop over the body of Recipe.__init__; the registry goes along, as
\* the templates compiled on the way register their classes
BuildMembers(ms, k, acc, cname, tmpls, depth) ==
    IF k > Len(ms) THEN acc
    ELSE LET m == ms[k] IN
         Given(IF m.m = "field"
               THEN IF m.has_init THEN AddFieldErr(m, acc, cname, tmpls, depth)
                    ELSE AddField0Err(m, acc, cname, tmpls, depth)
               ELSE AddMethodErr(m, acc, cname, tmpls, depth),
               LAMBDA r :
                  IF Failed(r.e) THEN [acc EXCEPT !.e = r.e, !.reg = r.reg]
                  ELSE Given(IF m.m = "field"
                             THEN [acc EXCEPT !.fields = Append(@, [name |-> m.name,
                                                                    btype |-> m.btype,
                                                                    v |-> FieldValue(m)]),
                                              !.reg = r.reg]
                             ELSE [acc EXCEPT !.methods = Append(@, m), !.reg = r.reg],
                             LAMBDA a : BuildMembers(ms, k + 1, a, cname, tmpls, depth)))

\* no instantiation is ever taken from the registry
MemoizedNever(name, reg) == FALSE

\* Formula.compile, `name in self.classes`: the instantiation was compiled
\* before and is taken from the registry
Memoized(name, reg) == name \in DOMAIN reg

\* Formula.compile: the class registered under the name, or the type
\* arguments are checked, the body with the types substituted is made into
\* a Recipe, and the Recipe is registered.  ValueError is that of
\* zip(strict=True); RecursionError is the end the host puts to compile
\* calls one inside the other.
Compile(formula, types, reg, tmpls, depth) ==
    LET name == Join(<<formula.name>> \o types) IN
    IF Memoized(name, reg) THEN [e |-> NoErr, reg |-> reg]
    ELSE IF \E k \in 1..Len(types) : ~ isVarType(types[k], formula.name, reg)
    THEN [e |-> Err("TYPE", 0), reg |-> reg]
    ELSE IF Len(types) # Len(formula.field_types)
    THEN [e |-> Raised("ValueError"), reg |-> reg]
    ELSE IF depth = 0
    THEN [e |-> Raised("RecursionError"), reg |-> reg]
    ELSE Given(SubstituteTypes(formula.body, TypeMap(formula.field_types, types)),
               LAMBDA body :
                  Given(BuildMembers(body, 1,
                                     [e |-> NoErr, fields |-> <<>>, methods |-> <<>>,
                                      reg |-> reg],
                                     name, tmpls, depth - 1),
                        LAMBDA b :
                           IF Failed(b.e) THEN [e |-> b.e, reg |-> b.reg]
                           ELSE [e |-> NoErr,
                                 reg |-> Put(b.reg, name,
                                             Definition(b.reg, name, "", b.fields,
                                                        b.methods))]))

\* Recipe.__init__: copy.copy(classes[parent_name]) is None when the parent
\* is still the placeholder of the first loop, and KeyError when the name
\* was never registered.
ParentOf(form, reg) ==
    IF form.parent = "" THEN ""
    ELSE IF reg[form.parent].built THEN form.parent
    ELSE ""

BuildClass(form, reg, tmpls) ==
    IF form.parent # "" /\ form.parent \notin DOMAIN reg
    THEN [e |-> Err("TYPE", form.line), fields |-> <<>>, methods |-> <<>>, reg |-> reg]
    ELSE BuildMembers(form.members, 1,
                      [e |-> NoErr, fields |-> <<>>, methods |-> <<>>, reg |-> reg],
                      form.name, tmpls, MaxCompileDepth)

\* error(): the error sink records kind and line and raises RuntimeError
Error(kind, line) ==
    /\ ctl' = CRaise("RuntimeError", 0)
    /\ errType' = kind
    /\ errLine' = line

\* the end of a construction that failed: the error given to the error
\* sink, or the exception of the host on its way out
Fail(e) ==
    IF e.exc # ""
    THEN ctl' = CRaise(e.exc, 0) /\ UNCHANGED <<errType, errLine>>
    ELSE Error(e.err, e.line)

\* first loop of Barista.run: every class name and every template name
\* gets a placeholder
Register ==
    /\ phase = "register"
    /\ classes' = [n \in {Program[k].name : k \in {j \in 1..Len(Program) : ~ Program[j].tclass}}
                     |-> Placeholder]
    /\ templates' = [n \in {Program[k].name : k \in {j \in 1..Len(Program) : Program[j].tclass}}
                       |-> Placeholder]
    /\ phase' = "build"
    /\ UNCHANGED <<prog, inp, loadIdx, objs, boxes, plates, params, ctl, kont, out,
                   errType, errLine, nstmt>>

\* second loop of Barista.run: Barista.add_class of the next class
AddClass ==
    /\ phase = "build"
    /\ ctl.m = "halt"
    /\ loadIdx <= Len(Program)
    /\ ~ Program[loadIdx].tclass
    /\ LET form == Program[loadIdx]
           built == BuildClass(form, classes, templates)
       IN IF classes[form.name].built
          THEN Error("TYPE", form.line) /\ UNCHANGED <<classes, loadIdx>>
          ELSE IF Failed(built.e)
          THEN Fail(built.e) /\ classes' = built.reg /\ UNCHANGED loadIdx
          ELSE /\ classes' = [built.reg EXCEPT ![form.name] =
                                Definition(built.reg, form.name, ParentOf(form, classes),
                                           built.fields, built.methods)]
               /\ loadIdx' = loadIdx + 1
               /\ UNCHANGED <<ctl, errType, errLine>>
    /\ UNCHANGED <<prog, inp, phase, templates, objs, boxes, plates, params, kont, out, nstmt>>

\* second loop of Barista.run: Barista.add_template of the next template;
\* the body is kept as it is
AddTemplate ==
    /\ phase = "build"
    /\ ctl.m = "halt"
    /\ loadIdx <= Len(Program)
    /\ Program[loadIdx].tclass
    /\ LET form == Program[loadIdx] IN
       IF templates[form.name].built
       THEN Error("TYPE", form.line) /\ UNCHANGED <<templates, loadIdx>>
       ELSE /\ templates' = [templates EXCEPT ![form.name] =
                               [built |-> TRUE, name |-> form.name,
                                field_types |-> form.field_types, body |-> form.members]]
            /\ loadIdx' = loadIdx + 1
            /\ UNCHANGED <<ctl, errType, errLine>>
    /\ UNCHANGED <<prog, inp, phase, classes, objs, boxes, plates, params, kont, out, nstmt>>

\* Recipe.__copy__: a new Recipe with a copy of the parent, then new Tins
\* holding new Ingredients with the values of the fields
RECURSIVE AllocFields(_, _, _, _)
AllocFields(fs, k, bs, tins) ==
    IF k > Len(fs) THEN [boxes |-> bs, tins |-> tins]
    ELSE AllocFields(fs, k + 1,
                     Append(bs, [fs[k].v EXCEPT !.btype = fs[k].btype]),
                     Put(tins, fs[k].name, Tin(fs[k].btype, Len(bs) + 1)))

RECURSIVE Copy(_, _, _, _)
Copy(os, bs, reg, cname) ==
    LET par == IF reg[cname].parent # "" THEN Copy(os, bs, reg, reg[cname].parent)
               ELSE [objs |-> os, boxes |-> bs, id |-> 0]
        fl  == AllocFields(reg[cname].fields, 1, par.boxes, EmptyMap)
    IN [objs  |-> Append(par.objs, [name |-> cname, parent |-> par.id, fields |-> fl.tins]),
        boxes |-> fl.boxes,
        id    |-> Len(par.objs) + 1]

\* the end of Barista.run: copy the main class and call its main method
StartMain ==
    /\ phase = "build"
    /\ ctl.m = "halt"
    /\ loadIdx > Len(Program)
    /\ IF "main" \notin DOMAIN classes
       THEN /\ Error("TYPE", 0)
            /\ UNCHANGED <<objs, boxes, kont>>
       ELSE LET c == Copy(objs, boxes, classes, "main") IN
            /\ objs' = c.objs
            /\ boxes' = c.boxes
            /\ kont' = <<[f |-> "run", obj |-> c.id]>>
            /\ ctl' = CCallMethod([self |-> c.id, name |-> "main", args |-> <<>>,
                                   first_call |-> TRUE, me |-> c.id, exception |-> 0,
                                   swallowed |-> <<>>])
            /\ UNCHANGED <<errType, errLine>>
    /\ phase' = "run"
    /\ UNCHANGED <<prog, inp, loadIdx, classes, templates, plates, params, out, nstmt>>

(***************************************************************************)
(* evaluate_statement                                                     *)
(***************************************************************************)
Running == phase = "run"
AtStmt(op) == Running /\ ctl.m = "stmt" /\ ctl.node.op = op
AtExpr(op) == Running /\ ctl.m = "expr" /\ ctl.node.op = op
\* a value, an order or a service comes back to the innermost invocation
Back(m, f) == Running /\ ctl.m = m /\ kont # <<>> /\ Top(kont).f = f
Push(fr) == kont' = Append(kont, fr)
Replace(fr) == kont' = Append(Pop(kont), fr)
Drop == kont' = Pop(kont)

\* the exceptions the except clauses name
CallMethodErrors == {"KeyError", "ValueError", "NameError", "TypeError"}
CallSiteErrors == CallMethodErrors \cup {"AttributeError"}

\* except clauses of try and call_method that take every exception
CatchesBroad(fr, exc) ==
    \/ fr.f \in {"try", "call_method"}
    \/ fr.f \in {"callsite", "callargs"} /\ exc \in CallSiteErrors
    \/ fr.f = "run" /\ exc \in CallMethodErrors

\* the exceptions the invocation of frame fr has an except clause for: the
\* try statement around its body, call_method of a Recipe with a parent,
\* the call statement and expression, Barista.run
Catches(fr, exc) ==
    \/ fr.f = "try" /\ exc = "Complaint"
    \/ fr.f = "call_method" /\ exc \in CallMethodErrors
    \/ fr.f \in {"callsite", "callargs"} /\ exc \in CallSiteErrors
    \/ fr.f = "run" /\ exc \in CallMethodErrors

\* an order that is never taken as a return
ReturnsNever(order) == FALSE

\* is_return of the order a sub-statement gave: "if latest_order[0]: return"
Returns(order) == order.flag

\* new Ingredient on the heap
NewBox(b) == boxes' = Append(boxes, b)
NextBox == Len(boxes) + 1

\* (begin s1 s2 ...): an empty begin matches no case of the statement match
StmtBegin ==
    /\ AtStmt("begin")
    /\ nstmt' = nstmt + 1
    /\ IF ctl.node.ss = <<>>
       THEN Error("SYNTAX", 0) /\ UNCHANGED kont
       ELSE /\ Push([f |-> "seq", kind |-> "begin", rest |-> Tail(ctl.node.ss), env |-> ctl.env])
            /\ ctl' = CStmt(ctl.node.ss[1], ctl.env)
            /\ UNCHANGED <<errType, errLine>>
    /\ UNCHANGED <<prog, inp, phase, loadIdx, classes, templates, objs, boxes, plates, params, out>>

\* the loop over the sub-statements of begin and of let
ContSeq ==
    /\ Back("order", "seq")
    /\ LET fr == Top(kont) IN
       IF Returns(ctl) THEN Drop /\ ctl' = ctl
       ELSE IF fr.rest = <<>> THEN Drop /\ ctl' = COrder(FALSE, 0)
       ELSE /\ Replace([fr EXCEPT !.rest = Tail(fr.rest)])
            /\ ctl' = CStmt(fr.rest[1], fr.env)
    /\ UNCHANGED <<prog, inp, phase, loadIdx, classes, templates, objs, boxes, plates, params, out,
                   errType, errLine, nstmt>>

\* (if cond then) and (if cond then else)
StmtIf ==
    /\ Running
    /\ ctl.m = "stmt"
    /\ ctl.node.op \in {"if", "ifelse"}
    /\ nstmt' = nstmt + 1
    /\ Push([f |-> "if", node |-> ctl.node, env |-> ctl.env])
    /\ ctl' = CExpr(ctl.node.cond, ctl.env)
    /\ UNCHANGED <<prog, inp, phase, loadIdx, classes, templates, objs, boxes, plates, params, out,
                   errType, errLine>>

ContIf ==
    /\ Back("val", "if")
    /\ LET fr == Top(kont)
           b  == boxes[ctl.box]
       IN IF b.kind # "bool"
          THEN Error("TYPE", fr.node.line) /\ UNCHANGED kont
          ELSE /\ Drop
               /\ ctl' = IF b.i = 1 THEN CStmt(fr.node.then, fr.env)
                         ELSE IF fr.node.op = "ifelse" THEN CStmt(fr.node.else, fr.env)
                         ELSE COrder(FALSE, 0)
               /\ UNCHANGED <<errType, errLine>>
    /\ UNCHANGED <<prog, inp, phase, loadIdx, classes, templates, objs, boxes, plates, params, out, nstmt>>

\* (while cond body)
StmtWhile ==
    /\ AtStmt("while")
    /\ nstmt' = nstmt + 1
    /\ Push([f |-> "while", node |-> ctl.node, env |-> ctl.env])
    /\ ctl' = CExpr(ctl.node.cond, ctl.env)
    /\ UNCHANGED <<prog, inp, phase, loadIdx, classes, templates, objs, boxes, plates, params, out,
                   errType, errLine>>

ContWhileCond ==
    /\ Back("val", "while")
    /\ LET fr == Top(kont)
           b  == boxes[ctl.box]
       IN IF b.kind # "bool"
          THEN Error("TYPE", fr.node.line) /\ UNCHANGED kont
          ELSE /\ IF b.i = 1
                  THEN Replace([fr EXCEPT !.f = "whilebody"]) /\ ctl' = CStmt(fr.node.body, fr.env)
                  ELSE Drop /\ ctl' = COrder(FALSE, 0)
               /\ UNCHANGED <<errType, errLine>>
    /\ UNCHANGED <<prog, inp, phase, loadIdx, classes, templates, objs, boxes, plates, params, out, nstmt>>

\* the body run at most once: the condition is not evaluated again
ContWhileBodyOnce ==
    /\ Back("order", "whilebody")
    /\ Drop
    /\ ctl' = IF Returns(ctl) THEN ctl ELSE COrder(FALSE, 0)
    /\ UNCHANGED <<prog, inp, phase, loadIdx, classes, templates, objs, boxes, plates, params, out,
                   errType, errLine, nstmt>>

\* the body of the while has returned its order: a return leaves the loop,
\* anything else goes back to the condition
ContWhileBody ==
    /\ Back("order", "whilebody")
    /\ LET fr == Top(kont) IN
       IF Returns(ctl) THEN Drop /\ ctl' = ctl
       ELSE Replace([fr EXCEPT !.f = "while"]) /\ ctl' = CExpr(fr.node.cond, fr.env)
    /\ UNCHANGED <<prog, inp, phase, loadIdx, classes, templates, objs, boxes, plates, params, out,
                   errType, errLine, nstmt>>

\* (print expr ...)
StmtOutput ==
    /\ AtStmt("print")
    /\ nstmt' = nstmt + 1
    /\ IF ctl.node.args = <<>>
       THEN /\ out' = Append(out, "")
            /\ ctl' = COrder(FALSE, 0)
            /\ UNCHANGED kont
       ELSE /\ Push([f |-> "print", rest |-> Tail(ctl.node.args), acc |-> "", env |-> ctl.env])
            /\ ctl' = CExpr(ctl.node.args[1], ctl.env)
            /\ UNCHANGED out
    /\ UNCHANGED <<prog, inp, phase, loadIdx, classes, templates, objs, boxes, plates, params,
                   errType, errLine>>

ContOutput ==
    /\ Back("val", "print")
    /\ LET fr  == Top(kont)
           acc == fr.acc \o BoxStr(objs, boxes[ctl.box])
       IN IF fr.rest = <<>>
          THEN /\ out' = Append(out, acc)
               /\ Drop
               /\ ctl' = COrder(FALSE, 0)
          ELSE /\ Replace([fr EXCEPT !.rest = Tail(fr.rest), !.acc = acc])
               /\ ctl' = CExpr(fr.rest[1], fr.env)
               /\ UNCHANGED out
    /\ UNCHANGED <<prog, inp, phase, loadIdx, classes, templates, objs, boxes, plates, params,
                   errType, errLine, nstmt>>

\* (return)
StmtReturn0 ==
    /\ AtStmt("return0")
    /\ nstmt' = nstmt + 1
    /\ ctl' = COrder(TRUE, 0)
    /\ UNCHANGED <<prog, inp, phase, loadIdx, classes, templates, objs, boxes, plates, params, kont, out,
                   errType, errLine>>

\* (return expr)
StmtReturn ==
    /\ AtStmt("return")
    /\ nstmt' = nstmt + 1
    /\ Push([f |-> "return", env |-> ctl.env])
    /\ ctl' = CExpr(ctl.node.e, ctl.env)
    /\ UNCHANGED <<prog, inp, phase, loadIdx, classes, templates, objs, boxes, plates, params, out,
                   errType, errLine>>

ContReturn ==
    /\ Back("val", "return")
    /\ Drop
    /\ ctl' = COrder(TRUE, ctl.box)
    /\ UNCHANGED <<prog, inp, phase, loadIdx, classes, templates, objs, boxes, plates, params, out,
                   errType, errLine, nstmt>>

\* Tin.set_value when it succeeds: the Ingredient gets the btype of the
\* variable and the variable holds that very Ingredient
Store(ref, name, b) ==
    /\ boxes' = Retag(boxes, b, TinOf(ref, name).btype)
    /\ plates' = IF ref.w = "plate" THEN [plates EXCEPT ![ref.id].locals[name].box = b]
                 ELSE plates
    /\ params' = IF ref.w = "param" THEN [params EXCEPT ![ref.id][name].box = b] ELSE params
    /\ objs' = IF ref.w = "field" THEN [objs EXCEPT ![ref.id].fields[name].box = b] ELSE objs

\* (set var expr): the variable is looked up before the expression is evaluated
StmtSet ==
    /\ AtStmt("set")
    /\ nstmt' = nstmt + 1
    /\ LET ref == Resolve(ctl.node.var, ctl.env) IN
       IF ref.w = "none"
       THEN Error("NAME", ctl.node.line) /\ UNCHANGED kont
       ELSE /\ Push([f |-> "set", ref |-> ref, name |-> ctl.node.var, line |-> ctl.node.line,
                     env |-> ctl.env])
            /\ ctl' = CExpr(ctl.node.e, ctl.env)
            /\ UNCHANGED <<errType, errLine>>
    /\ UNCHANGED <<prog, inp, phase, loadIdx, classes, templates, objs, boxes, plates, params, out>>

ContSet ==
    /\ Back("val", "set")
    /\ LET fr == Top(kont) IN
       IF SetValueOK(classes, objs, TinOf(fr.ref, fr.name).btype, boxes[ctl.box])
       THEN /\ Store(fr.ref, fr.name, ctl.box)
            /\ Drop
            /\ ctl' = COrder(FALSE, 0)
            /\ UNCHANGED <<errType, errLine>>
       ELSE /\ Error("TYPE", fr.line)
            /\ UNCHANGED <<kont, objs, boxes, plates, params>>
    /\ UNCHANGED <<prog, inp, phase, loadIdx, classes, templates, out, nstmt>>

\* int() of an input line: the number whose decimal text the line is
IsIntText(text) == \E n \in -99..99 : IntStr(n) = text
ParseInt(text) == CHOOSE n \in -99..99 : IntStr(n) = text

\* (inputi var): the variable is looked up, then a line is read; get_input
\* gives None when no line is left, and int(None) is the TypeError reported
\* as "Expected input but got none"
StmtInputI ==
    /\ AtStmt("inputi")
    /\ nstmt' = nstmt + 1
    /\ LET ref == Resolve(ctl.node.var, ctl.env) IN
       IF ref.w = "none"
       THEN /\ Error("NAME", ctl.node.line)
            /\ UNCHANGED <<inp, objs, boxes, plates, params>>
       ELSE IF inp = <<>>
       THEN /\ Error("TYPE", ctl.node.line)
            /\ UNCHANGED <<inp, objs, boxes, plates, params>>
       ELSE IF ~ IsIntText(Head(inp))
       THEN /\ Error("TYPE", ctl.node.line)
            /\ inp' = Tail(inp)
            /\ UNCHANGED <<objs, boxes, plates, params>>
       ELSE LET nb == MkBox("int", ParseInt(Head(inp)), "") IN
            /\ inp' = Tail(inp)
            /\ IF SetValueOK(classes, objs, TinOf(ref, ctl.node.var).btype, nb)
               THEN /\ boxes' = Append(boxes, [nb EXCEPT !.btype = TinOf(ref, ctl.node.var).btype])
                    /\ plates' = IF ref.w = "plate"
                                 THEN [plates EXCEPT ![ref.id].locals[ctl.node.var].box = NextBox]
                                 ELSE plates
                    /\ params' = IF ref.w = "param"
                                 THEN [params EXCEPT ![ref.id][ctl.node.var].box = NextBox]
                                 ELSE params
                    /\ objs' = IF ref.w = "field"
                               THEN [objs EXCEPT ![ref.id].fields[ctl.node.var].box = NextBox]
                               ELSE objs
                    /\ ctl' = COrder(FALSE, 0)
                    /\ UNCHANGED <<errType, errLine>>
               ELSE /\ Error("TYPE", ctl.node.line)
                    /\ boxes' = Append(boxes, nb)
                    /\ UNCHANGED <<objs, plates, params>>
    /\ UNCHANGED <<prog, phase, loadIdx, classes, templates, kont, out>>

\* (inputs var): str(get_input()); str(None) is the text "None"
StmtInputS ==
    /\ AtStmt("inputs")
    /\ nstmt' = nstmt + 1
    /\ LET ref == Resolve(ctl.node.var, ctl.env) IN
       IF ref.w = "none"
       THEN /\ Error("NAME", ctl.node.line)
            /\ UNCHANGED <<inp, objs, boxes, plates, params>>
       ELSE LET nb == MkBox("str", 0, IF inp = <<>> THEN "None" ELSE Head(inp)) IN
            /\ inp' = IF inp = <<>> THEN inp ELSE Tail(inp)
            /\ IF SetValueOK(classes, objs, TinOf(ref, ctl.node.var).btype, nb)
               THEN /\ boxes' = Append(boxes, [nb EXCEPT !.btype = TinOf(ref, ctl.node.var).btype])
                    /\ plates' = IF ref.w = "plate"
                                 THEN [plates EXCEPT ![ref.id].locals[ctl.node.var].box = NextBox]
                                 ELSE plates
                    /\ params' = IF ref.w = "param"
                                 THEN [params EXCEPT ![ref.id][ctl.node.var].box = NextBox]
                                 ELSE params
                    /\ objs' = IF ref.w = "field"
                               THEN [objs EXCEPT ![ref.id].fields[ctl.node.var].box = NextBox]
                               ELSE objs
                    /\ ctl' = COrder(FALSE, 0)
                    /\ UNCHANGED <<errType, errLine>>
               ELSE /\ Error("TYPE", ctl.node.line)
                    /\ boxes' = Append(boxes, nb)
                    /\ UNCHANGED <<objs, plates, params>>
    /\ UNCHANGED <<prog, phase, loadIdx, classes, templates, kont, out>>

\* Plate.add_variable for the definitions of a let, one after the other; a
\* definition without a value has its type looked at before add_variable
RECURSIVE AddVariables(_, _, _, _, _, _)
AddVariables(ds, k, bs, tins, meName, reg) ==
    IF k > Len(ds) THEN [e |-> NoErr, boxes |-> bs, tins |-> tins, reg |-> reg]
    ELSE LET d  == ds[k]
             b  == IF d.has_init THEN LitBox(d.init) ELSE InitialValue(d.btype)
             u0 == IF d.has_init THEN [e |-> NoErr, reg |-> reg]
                   ELSE UseType(d.btype, isVarType(d.btype, meName, reg), reg, templates,
                                MaxCompileDepth)
             u  == UseType(d.btype, isVarType(d.btype, meName, u0.reg), u0.reg, templates,
                           MaxCompileDepth)
         IN IF Failed(u0.e)
            THEN [e |-> u0.e, boxes |-> bs, tins |-> tins, reg |-> u0.reg]
            ELSE IF d.name \in DOMAIN tins
            THEN [e |-> Err("NAME", 0), boxes |-> bs, tins |-> tins, reg |-> u0.reg]
            ELSE IF b.kind = "none"
            THEN [e |-> Err("SYNTAX", 0), boxes |-> bs, tins |-> tins, reg |-> u0.reg]
            ELSE IF Failed(u.e)
            THEN [e |-> u.e, boxes |-> bs, tins |-> tins, reg |-> u.reg]
            ELSE IF ~ SetValueOK(u.reg, objs, d.btype, b)
            THEN [e |-> Err("TYPE", 0), boxes |-> Append(bs, b), tins |-> tins, reg |-> u.reg]
            ELSE AddVariables(ds, k + 1, Append(bs, [b EXCEPT !.btype = d.btype]),
                              Put(tins, d.name, Tin(d.btype, Len(bs) + 1)), meName, u.reg)

\* (let (defs) s1 s2 ...): a new Plate on top of the stack it was given; the
\* sub-statements get the new Plate, the caller keeps its own stack
StmtLet ==
    /\ AtStmt("let")
    /\ nstmt' = nstmt + 1
    /\ IF ctl.node.ss = <<>>
       THEN Error("SYNTAX", 0) /\ UNCHANGED <<kont, boxes, plates, classes>>
       ELSE LET r == AddVariables(ctl.node.defs, 1, boxes, EmptyMap, objs[ctl.env.me].name,
                                  classes)
            IN /\ boxes' = r.boxes
               /\ classes' = r.reg
               /\ plates' = Append(plates, [under |-> ctl.env.stack, locals |-> r.tins])
               /\ IF Failed(r.e)
                  THEN Fail([r.e EXCEPT !.line = ctl.node.line]) /\ UNCHANGED kont
                  ELSE /\ Push([f |-> "seq", kind |-> "let", rest |-> Tail(ctl.node.ss),
                                env |-> [ctl.env EXCEPT !.stack = Len(plates) + 1]])
                       /\ ctl' = CStmt(ctl.node.ss[1], [ctl.env EXCEPT !.stack = Len(plates) + 1])
                       /\ UNCHANGED <<errType, errLine>>
    /\ UNCHANGED <<prog, inp, phase, loadIdx, templates, objs, params, out>>

\* (throw expr)
StmtThrow ==
    /\ AtStmt("throw")
    /\ nstmt' = nstmt + 1
    /\ Push([f |-> "throw", line |-> ctl.node.line, env |-> ctl.env])
    /\ ctl' = CExpr(ctl.node.e, ctl.env)
    /\ UNCHANGED <<prog, inp, phase, loadIdx, classes, templates, objs, boxes, plates, params, out,
                   errType, errLine>>

\* raise Complaint(value): Complaint.__init__ raises ValueError for a value
\* that is not a string, which the throw statement reports as a TYPE error
ContThrow ==
    /\ Back("val", "throw")
    /\ IF boxes[ctl.box].kind # "str"
       THEN Error("TYPE", Top(kont).line) /\ UNCHANGED kont
       ELSE /\ Drop
            /\ ctl' = CRaise("Complaint", ctl.box)
            /\ UNCHANGED <<errType, errLine>>
    /\ UNCHANGED <<prog, inp, phase, loadIdx, classes, templates, objs, boxes, plates, params, out, nstmt>>

\* (try body handler)
StmtTry ==
    /\ AtStmt("try")
    /\ nstmt' = nstmt + 1
    /\ Push([f |-> "try", handler |-> ctl.node.handler, env |-> ctl.env])
    /\ ctl' = CStmt(ctl.node.body, ctl.env)
    /\ UNCHANGED <<prog, inp, phase, loadIdx, classes, templates, objs, boxes, plates, params, out,
                   errType, errLine>>

\* the body of the try has returned its order
ContTry ==
    /\ Back("order", "try")
    /\ Drop
    /\ ctl' = IF Returns(ctl) THEN ctl ELSE COrder(FALSE, 0)
    /\ UNCHANGED <<prog, inp, phase, loadIdx, classes, templates, objs, boxes, plates, params, out,
                   errType, errLine, nstmt>>

\* the handler given the exception of the try statement itself
HandlerEnvUnbound(fr, b) == fr.env

\* the first exception handled stays the exception of the handlers inside
HandlerEnvFirst(fr, b) ==
    IF fr.env.exception # 0 THEN fr.env ELSE [fr.env EXCEPT !.exception = b]

\* the environment the handler of a try runs in
HandlerEnv(fr, b) == [fr.env EXCEPT !.exception = b]

\* the handler run inside the try block
ExceptFrameInTry(fr) == fr

\* the invocation of the try statement once control is in its except
\* clause, which is outside the try block
ExceptFrame(fr) == [f |-> "except", env |-> fr.env]

\* except Complaint as e: the handler runs with e.message as exception
Catch ==
    /\ Running
    /\ ctl.m = "raise"
    /\ kont # <<>>
    /\ Top(kont).f = "try"
    /\ Catches(Top(kont), ctl.exc)
    /\ Replace(ExceptFrame(Top(kont)))
    /\ ctl' = CStmt(Top(kont).handler, HandlerEnv(Top(kont), ctl.box))
    /\ UNCHANGED <<prog, inp, phase, loadIdx, classes, templates, objs, boxes, plates, params, out,
                   errType, errLine, nstmt>>

\* the handler has returned its order
ContExcept ==
    /\ Back("order", "except")
    /\ Drop
    /\ ctl' = IF Returns(ctl) THEN ctl ELSE COrder(FALSE, 0)
    /\ UNCHANGED <<prog, inp, phase, loadIdx, classes, templates, objs, boxes, plates, params, out,
                   errType, errLine, nstmt>>

\* a statement that matches no case
StmtInvalid ==
    /\ Running
    /\ ctl.m = "stmt"
    /\ ctl.node.op \notin {"begin", "call", "if", "ifelse", "inputi", "inputs", "print",
                           "return0", "return", "set", "while", "let", "throw", "try"}
    /\ nstmt' = nstmt + 1
    /\ Error("SYNTAX", 0)
    /\ UNCHANGED <<prog, inp, phase, loadIdx, classes, templates, objs, boxes, plates, params, kont, out>>

(***************************************************************************)
(* evaluate_expression                                                    *)
(***************************************************************************)

\* me
ExprMe ==
    /\ AtExpr("me")
    /\ NewBox(MkBox("obj", ctl.env.me, ""))
    /\ ctl' = CVal(NextBox)
    /\ UNCHANGED <<prog, inp, phase, loadIdx, classes, templates, objs, plates, params, kont, out,
                   errType, errLine, nstmt>>

\* super: the parent of the Recipe the method belongs to, marked is_super
ExprSuper ==
    /\ AtExpr("super")
    /\ IF ctl.env.super # 0
       THEN /\ NewBox([MkBox("obj", ctl.env.super, "") EXCEPT !.is_super = TRUE])
            /\ ctl' = CVal(NextBox)
            /\ UNCHANGED <<errType, errLine>>
       ELSE Error("TYPE", ctl.node.line) /\ UNCHANGED boxes
    /\ UNCHANGED <<prog, inp, phase, loadIdx, classes, templates, objs, plates, params, kont, out, nstmt>>

\* exception
ExprException ==
    /\ AtExpr("exception")
    /\ IF ctl.env.exception # 0
       THEN ctl' = CVal(ctl.env.exception) /\ UNCHANGED <<errType, errLine>>
       ELSE Error("NAME", ctl.node.line)
    /\ UNCHANGED <<prog, inp, phase, loadIdx, classes, templates, objs, boxes, plates, params, kont, out,
                   nstmt>>

\* a token that names a variable: the Ingredient the variable holds
ExprVariable ==
    /\ AtExpr("tok")
    /\ Resolve(ctl.node.name, ctl.env).w # "none"
    /\ ctl' = CVal(TinOf(Resolve(ctl.node.name, ctl.env), ctl.node.name).box)
    /\ UNCHANGED <<prog, inp, phase, loadIdx, classes, templates, objs, boxes, plates, params, kont, out,
                   errType, errLine, nstmt>>

\* any other token: a constant, or the NAME error "Variable not found"
ExprConst ==
    /\ AtExpr("tok")
    /\ Resolve(ctl.node.name, ctl.env).w = "none"
    /\ IF ctl.node.lit = "none"
       THEN Error("NAME", ctl.node.line) /\ UNCHANGED boxes
       ELSE /\ NewBox(LitBox(ctl.node))
            /\ ctl' = CVal(NextBox)
            /\ UNCHANGED <<errType, errLine>>
    /\ UNCHANGED <<prog, inp, phase, loadIdx, classes, templates, objs, plates, params, kont, out, nstmt>>

\* the class (new name) makes an object of: the class of the registry, or
\* for a name with type arguments what compile of the template gives;
\* KeyError and ValueError are reported as TYPE errors
NewClass(name) ==
    LET l == T2L(name) IN
    IF Len(l) > 1
    THEN IF l[1] \notin DOMAIN templates
         THEN [e |-> Err("TYPE", 0), reg |-> classes]
         ELSE LET c == Compile(templates[l[1]], Tail(l), classes, templates, MaxCompileDepth)
              IN IF c.e.exc = "ValueError"
                 THEN [e |-> Err("TYPE", 0), reg |-> c.reg]
                 ELSE c
    ELSE IF name \notin DOMAIN classes
    THEN [e |-> Err("TYPE", 0), reg |-> classes]
    ELSE [e |-> NoErr, reg |-> classes]

\* (new name)
ExprNew ==
    /\ AtExpr("new")
    /\ LET r == NewClass(ctl.node.name) IN
       /\ classes' = r.reg
       /\ IF Failed(r.e)
          THEN Fail([r.e EXCEPT !.line = ctl.node.line]) /\ UNCHANGED <<objs, boxes>>
          ELSE LET c == Copy(objs, boxes, r.reg, Join(T2L(ctl.node.name))) IN
               /\ objs' = c.objs
               /\ boxes' = Append(c.boxes, MkBox("obj", c.id, ""))
               /\ ctl' = CVal(Len(c.boxes) + 1)
               /\ UNCHANGED <<errType, errLine>>
    /\ UNCHANGED <<prog, inp, phase, loadIdx, templates, plates, params, kont, out, nstmt>>

\* (op expr)
ExprUnary ==
    /\ AtExpr("un")
    /\ Push([f |-> "un", node |-> ctl.node, env |-> ctl.env])
    /\ ctl' = CExpr(ctl.node.e, ctl.env)
    /\ UNCHANGED <<prog, inp, phase, loadIdx, classes, templates, objs, boxes, plates, params, out,
                   errType, errLine, nstmt>>

ContUnary ==
    /\ Back("val", "un")
    /\ IF Top(kont).node.o = "!" /\ boxes[ctl.box].kind = "bool"
       THEN /\ NewBox(MkBox("bool", 1 - boxes[ctl.box].i, ""))
            /\ ctl' = CVal(NextBox)
            /\ Drop
            /\ UNCHANGED <<errType, errLine>>
       ELSE Error("TYPE", Top(kont).node.line) /\ UNCHANGED <<boxes, kont>>
    /\ UNCHANGED <<prog, inp, phase, loadIdx, classes, templates, objs, plates, params, out, nstmt>>

\* (op left right): left, then right
ExprBinary ==
    /\ AtExpr("bin")
    /\ Push([f |-> "binl", node |-> ctl.node, env |-> ctl.env, left |-> 0])
    /\ ctl' = CExpr(ctl.node.l, ctl.env)
    /\ UNCHANGED <<prog, inp, phase, loadIdx, classes, templates, objs, boxes, plates, params, out,
                   errType, errLine, nstmt>>

ContBinLeft ==
    /\ Back("val", "binl")
    /\ Replace([Top(kont) EXCEPT !.f = "binr", !.left = ctl.box])
    /\ ctl' = CExpr(Top(kont).node.r, Top(kont).env)
    /\ UNCHANGED <<prog, inp, phase, loadIdx, classes, templates, objs, boxes, plates, params, out,
                   errType, errLine, nstmt>>

Bool(p) == IF p THEN 1 ELSE 0
Abs(a) == IF a < 0 THEN 0 - a ELSE a
\* int(left / right): the quotient of the host's float division, truncated
TruncDiv(a, b) ==
    IF (a < 0) = (b < 0) THEN Abs(a) \div Abs(b) ELSE 0 - (Abs(a) \div Abs(b))
\* left % right of the host: the result has the sign of the divisor
PyMod(a, b) == IF b > 0 THEN a % b ELSE 0 - ((0 - a) % (0 - b))

\* the check of == and != on objects and null.  It is made only when the
\* right Ingredient has a btype and the left one has a btype or an object:
\* any other case ends in the AttributeError that is passed over.
Unrelated(l, r) ==
    /\ r.btype # ""
    /\ l.btype # "" \/ l.kind = "obj"
    /\ LET ln == IF l.btype # "" THEN l.btype ELSE objs[l.i].name IN
       ~ (IsInstanceClass(classes, ln, r.btype) \/ IsInstanceClass(classes, r.btype, ln))

IsRef(b) == b.kind \in {"obj", "null"}
SameRef(l, r) == l.kind = r.kind /\ l.i = r.i

\* the match on the operator: e is "" and the result an Ingredient value, or
\* e is the error kind, or e is "ZeroDivisionError"
BinOp(o, l, r) ==
    LET ok(b) == [e |-> "", v |-> b] IN
    CASE o \in {"+", "-", "*", "/", "%"} /\ l.kind = "int" /\ r.kind = "int" ->
           IF o \in {"/", "%"} /\ r.i = 0 THEN [e |-> "ZeroDivisionError", v |-> l]
           ELSE ok(MkBox("int", CASE o = "+" -> l.i + r.i
                                  [] o = "-" -> l.i - r.i
                                  [] o = "*" -> l.i * r.i
                                  [] o = "/" -> TruncDiv(l.i, r.i)
                                  [] o = "%" -> PyMod(l.i, r.i), ""))
      [] o \in {"<", ">", "<=", ">=", "!=", "=="} /\ l.kind = "int" /\ r.kind = "int" ->
           ok(MkBox("bool", Bool(CASE o = "<" -> l.i < r.i
                                   [] o = ">" -> l.i > r.i
                                   [] o = "<=" -> l.i <= r.i
                                   [] o = ">=" -> l.i >= r.i
                                   [] o = "!=" -> l.i # r.i
                                   [] o = "==" -> l.i = r.i), ""))
      [] o = "+" /\ l.kind = "str" /\ r.kind = "str" -> ok(MkBox("str", 0, l.s \o r.s))
      \* < > <= >= on two strings: the order of the host's strings is not
      \* modelled, and the evaluation stops rather than give an answer
      [] o \in {"<", ">", "<=", ">="} /\ l.kind = "str" /\ r.kind = "str" ->
           ok(CHOOSE b \in {} : TRUE)
      [] o \in {"==", "!="} /\ l.kind = "str" /\ r.kind = "str" ->
           ok(MkBox("bool", Bool((o = "==") = (l.s = r.s)), ""))
      [] o \in {"==", "!="} /\ l.kind = "bool" /\ r.kind = "bool" ->
           ok(MkBox("bool", Bool((o = "==") = (l.i = r.i)), ""))
      [] o = "&" /\ l.kind = "bool" /\ r.kind = "bool" ->
           ok(MkBox("bool", Bool(l.i = 1 /\ r.i = 1), ""))
      [] o = "|" /\ l.kind = "bool" /\ r.kind = "bool" ->
           ok(MkBox("bool", Bool(l.i = 1 \/ r.i = 1), ""))
      [] o \in {"==", "!="} /\ IsRef(l) /\ IsRef(r) ->
           IF Unrelated(l, r) THEN [e |-> "TYPE", v |-> l]
           ELSE ok(MkBox("bool", Bool((o = "==") = SameRef(l, r)), ""))
      [] OTHER -> [e |-> "TYPE", v |-> l]

ContBinRight ==
    /\ Back("val", "binr")
    /\ LET fr == Top(kont)
           r  == BinOp(fr.node.o, boxes[fr.left], boxes[ctl.box])
       IN IF r.e = ""
          THEN /\ NewBox(r.v)
               /\ ctl' = CVal(NextBox)
               /\ Drop
               /\ UNCHANGED <<errType, errLine>>
          ELSE IF r.e = "ZeroDivisionError"
          THEN /\ ctl' = CRaise("ZeroDivisionError", 0)
               /\ UNCHANGED <<boxes, kont, errType, errLine>>
          ELSE Error(r.e, fr.node.line) /\ UNCHANGED <<boxes, kont>>
    /\ UNCHANGED <<prog, inp, phase, loadIdx, classes, templates, objs, plates, params, out, nstmt>>

(***************************************************************************)
(* Method calls: the call statement and expression, Recipe.call_method,   *)
(* Instruction.call                                                       *)
(***************************************************************************)
\* (call target method arg ...) as a statement
StmtCall ==
    /\ AtStmt("call")
    /\ nstmt' = nstmt + 1
    /\ Push([f |-> "calltarget", node |-> ctl.node, env |-> ctl.env, isStmt |-> TRUE,
             target |-> 0, rest |-> ctl.node.args, done |-> <<>>])
    /\ ctl' = CExpr(ctl.node.target, ctl.env)
    /\ UNCHANGED <<prog, inp, phase, loadIdx, classes, templates, objs, boxes, plates, params, out,
                   errType, errLine>>

\* (call target method arg ...) as an expression
ExprCall ==
    /\ AtExpr("call")
    /\ Push([f |-> "calltarget", node |-> ctl.node, env |-> ctl.env, isStmt |-> FALSE,
             target |-> 0, rest |-> ctl.node.args, done |-> <<>>])
    /\ ctl' = CExpr(ctl.node.target, ctl.env)
    /\ UNCHANGED <<prog, inp, phase, loadIdx, classes, templates, objs, boxes, plates, params, out,
                   errType, errLine, nstmt>>

\* cuppa.call_method(method, *args, first_call=not beans.is_super, me=me,
\*                   exception=exception)
Invoke(fr, target, args) ==
    /\ Replace([fr EXCEPT !.f = "callsite", !.target = target, !.done = args])
    /\ ctl' = CCallMethod([self |-> boxes[target].i, name |-> fr.node.method, args |-> args,
                           first_call |-> ~ boxes[target].is_super, me |-> fr.env.me,
                           exception |-> fr.env.exception, swallowed |-> <<>>])

\* without the test for None: None has no call_method either
DereferenceNoNullTest(b) == IF b.kind # "obj" THEN "TYPE" ELSE ""

\* `if cuppa is None` and the lookup of cuppa.call_method, both before any
\* argument is evaluated: the error kind, "" for a Recipe
Dereference(b) ==
    IF b.kind = "null" THEN "FAULT"
    ELSE IF b.kind # "obj" THEN "TYPE"
    ELSE ""

\* the target is evaluated: FAULT for null, and the AttributeError of a
\* value that is no Recipe is reported as a TYPE error
ContCallTarget ==
    /\ Back("val", "calltarget")
    /\ LET fr == Top(kont)
           b  == boxes[ctl.box]
       IN IF Dereference(b) # ""
          THEN Error(Dereference(b), fr.node.line) /\ UNCHANGED kont
          ELSE IF fr.rest = <<>>
          THEN Invoke(fr, ctl.box, <<>>) /\ UNCHANGED <<errType, errLine>>
          ELSE /\ Replace([fr EXCEPT !.f = "callargs", !.target = ctl.box, !.rest = Tail(fr.rest)])
               /\ ctl' = CExpr(fr.rest[1], fr.env)
               /\ UNCHANGED <<errType, errLine>>
    /\ UNCHANGED <<prog, inp, phase, loadIdx, classes, templates, objs, boxes, plates, params, out, nstmt>>

\* the arguments, left to right
ContCallArg ==
    /\ Back("val", "callargs")
    /\ LET fr == Top(kont) IN
       IF fr.rest = <<>>
       THEN Invoke(fr, fr.target, Append(fr.done, ctl.box))
       ELSE /\ Replace([fr EXCEPT !.rest = Tail(fr.rest), !.done = Append(fr.done, ctl.box)])
            /\ ctl' = CExpr(fr.rest[1], fr.env)
    /\ UNCHANGED <<prog, inp, phase, loadIdx, classes, templates, objs, boxes, plates, params, out,
                   errType, errLine, nstmt>>

\* me=self whatever first_call is
CalleeMeSelf(c) == c.self

\* me=self if first_call else me
CalleeMe(c) == IF c.first_call THEN c.self ELSE c.me

\* Recipe.call_method: with a parent the call of the method is inside a try
CallMethod ==
    /\ Running
    /\ ctl.m = "call_method"
    /\ LET c == [ctl.call EXCEPT !.me = CalleeMe(ctl.call)] IN
       /\ IF objs[c.self].parent # 0
          THEN Push([f |-> "call_method", call |-> c])
          ELSE UNCHANGED kont
       /\ ctl' = CInstrCall(c)
    /\ UNCHANGED <<prog, inp, phase, loadIdx, classes, templates, objs, boxes, plates, params, out,
                   errType, errLine, nstmt>>

\* the pairs of a zip that is not strict: what one side has more is left out
RECURSIVE BindShortest(_, _, _, _, _)
BindShortest(fs, args, k, bs, tins) ==
    IF k > Len(fs) \/ k > Len(args) THEN [exc |-> "", boxes |-> bs, tins |-> tins]
    ELSE IF ~ SetValueOK(classes, objs, fs[k].btype, bs[args[k]])
    THEN [exc |-> "NameError", boxes |-> bs, tins |-> tins]
    ELSE BindShortest(fs, args, k + 1, Retag(bs, args[k], fs[k].btype),
                      Put(tins, fs[k].name, Tin(fs[k].btype, args[k])))

\* the dictionary of parameters of Instruction.call: zip(strict=True) gives
\* the pairs as long as both sides have one, each pair makes a Tin, and
\* ValueError comes when one side ends before the other
RECURSIVE Bind(_, _, _, _, _)
Bind(fs, args, k, bs, tins) ==
    IF k > Len(fs) /\ k > Len(args) THEN [exc |-> "", boxes |-> bs, tins |-> tins]
    ELSE IF k > Len(fs) \/ k > Len(args) THEN [exc |-> "ValueError", boxes |-> bs, tins |-> tins]
    ELSE IF ~ SetValueOK(classes, objs, fs[k].btype, bs[args[k]])
    THEN [exc |-> "NameError", boxes |-> bs, tins |-> tins]
    ELSE Bind(fs, args, k + 1, Retag(bs, args[k], fs[k].btype),
              Put(tins, fs[k].name, Tin(fs[k].btype, args[k])))

\* the Recipe whose method table and fields a call of call_method uses
ClassOfObj(o) == classes[objs[o].name]

\* the parent of the receiver, whatever class the method is found in
SuperOfReceiver(c) == objs[c.me].parent

\* self.me.parent: the parent of the Recipe the Instruction belongs to
SuperOf(c) == objs[c.self].parent

\* self.methods[name].call(*args, me=..., exception=exception) up to the
\* evaluation of the body
InstructionCall ==
    /\ Running
    /\ ctl.m = "call"
    /\ LET c == ctl.call IN
       IF ~ HasMethod(ClassOfObj(c.self), c.name)
       THEN /\ ctl' = CRaise("KeyError", 0)
            /\ UNCHANGED <<boxes, params, kont>>
       ELSE LET md == MethodOf(ClassOfObj(c.self), c.name)
                r  == Bind(md.formals, c.args, 1, boxes, EmptyMap)
            IN /\ boxes' = r.boxes
               /\ IF r.exc # ""
                  THEN /\ ctl' = CRaise(r.exc, 0)
                       /\ UNCHANGED <<params, kont>>
                  ELSE /\ params' = Append(params, r.tins)
                       /\ Push([f |-> "instr", call |-> c, btype |-> md.btype,
                                parameters |-> Len(params) + 1])
                       /\ ctl' = CStmt(md.body,
                                       Env(c.me, SuperOf(c), c.exception, 0,
                                           Len(params) + 1, c.self))
    /\ UNCHANGED <<prog, inp, phase, loadIdx, classes, templates, objs, plates, out, errType, errLine,
                   nstmt>>

\* the check of a returned value against the type of the method
ReturnOK(btype, b) == btype # "void" /\ SetValueOK(classes, objs, btype, b)

\* null whatever the type of the method
DefaultValueNull(btype) == MkBox("null", 0, "")

\* the value a method gives when its body returns none
DefaultValue(btype) ==
    CASE btype = "int"    -> MkBox("int", 0, "")
      [] btype = "string" -> MkBox("str", 0, "")
      [] btype = "bool"   -> MkBox("bool", 0, "")
      [] OTHER            -> MkBox("null", 0, "")

\* Instruction.call after the body: the returned Ingredient with the btype
\* of the method, TypeError, the default value, or None for void
ContInstr ==
    /\ Back("order", "instr")
    /\ LET fr == Top(kont) IN
       /\ Drop
       /\ IF ctl.flag /\ ctl.box # 0
          THEN IF ReturnOK(fr.btype, boxes[ctl.box])
               THEN /\ boxes' = Retag(boxes, ctl.box, fr.btype)
                    /\ ctl' = CService(ctl.box)
               ELSE /\ ctl' = CRaise("TypeError", 0)
                    /\ UNCHANGED boxes
          ELSE IF fr.btype = "void"
          THEN ctl' = CService(0) /\ UNCHANGED boxes
          ELSE /\ NewBox([DefaultValue(fr.btype) EXCEPT !.btype = fr.btype])
               /\ ctl' = CService(NextBox)
    /\ UNCHANGED <<prog, inp, phase, loadIdx, classes, templates, objs, plates, params, out,
                   errType, errLine, nstmt>>

\* call_method of a Recipe with a parent returns what the method returned
ContCallMethod ==
    /\ Back("service", "call_method")
    /\ Drop
    /\ ctl' = ctl
    /\ UNCHANGED <<prog, inp, phase, loadIdx, classes, templates, objs, boxes, plates, params, out,
                   errType, errLine, nstmt>>

\* the call_method of the parent that follows the passed-over exception
ParentCall(c, exc) ==
    [c EXCEPT !.self = objs[c.self].parent, !.first_call = FALSE,
              !.swallowed = Append(@, exc)]

\* except (KeyError, ValueError, NameError, TypeError): pass, and then
\* self.parent.call_method(name, *args, first_call=False, me=..., ...)
FallThrough ==
    /\ Running
    /\ ctl.m = "raise"
    /\ kont # <<>>
    /\ Top(kont).f = "call_method"
    /\ Catches(Top(kont), ctl.exc)
    /\ Drop
    /\ ctl' = CCallMethod(ParentCall(Top(kont).call, ctl.exc))
    /\ UNCHANGED <<prog, inp, phase, loadIdx, classes, templates, objs, boxes, plates, params, out,
                   errType, errLine, nstmt>>

\* the call statement or expression gets the service of call_method
ContCallSite ==
    /\ Back("service", "callsite")
    /\ LET fr == Top(kont) IN
       IF fr.isStmt
       THEN Drop /\ ctl' = COrder(FALSE, 0) /\ UNCHANGED <<errType, errLine>>
       ELSE IF ctl.box = 0
       THEN Error("TYPE", fr.node.line) /\ UNCHANGED kont
       ELSE Drop /\ ctl' = CVal(ctl.box) /\ UNCHANGED <<errType, errLine>>
    /\ UNCHANGED <<prog, inp, phase, loadIdx, classes, templates, objs, boxes, plates, params, out, nstmt>>

\* the error kind a call site gives to the exceptions of call_method
CallSiteKind(exc) == IF exc \in {"TypeError", "AttributeError"} THEN "TYPE" ELSE "NAME"

\* the except clauses of the call statement and expression
CallSiteError ==
    /\ Running
    /\ ctl.m = "raise"
    /\ kont # <<>>
    /\ Top(kont).f \in {"callsite", "callargs"}
    /\ Catches(Top(kont), ctl.exc)
    /\ Error(CallSiteKind(ctl.exc), Top(kont).node.line)
    /\ UNCHANGED <<prog, inp, phase, loadIdx, classes, templates, objs, boxes, plates, params, kont, out,
                   nstmt>>

\* main.main has returned
RunDone ==
    /\ Back("service", "run")
    /\ phase' = "done"
    /\ kont' = <<>>
    /\ ctl' = CHalt
    /\ UNCHANGED <<prog, inp, loadIdx, classes, templates, objs, boxes, plates, params, out,
                   errType, errLine, nstmt>>

\* the except clauses of Barista.run around the call of main.main
RunError ==
    /\ Running
    /\ ctl.m = "raise"
    /\ kont # <<>>
    /\ Top(kont).f = "run"
    /\ Catches(Top(kont), ctl.exc)
    /\ Error(IF ctl.exc = "TypeError" THEN "TYPE" ELSE "NAME", 0)
    /\ UNCHANGED <<prog, inp, phase, loadIdx, classes, templates, objs, boxes, plates, params, kont, out,
                   nstmt>>

\* an exception leaves an invocation that has no except clause for it
Propagate ==
    /\ phase \in {"build", "run"}
    /\ ctl.m = "raise"
    /\ kont # <<>>
    /\ ~ Catches(Top(kont), ctl.exc)
    /\ Drop
    /\ UNCHANGED <<prog, inp, phase, loadIdx, classes, templates, objs, boxes, plates, params, ctl, out,
                   errType, errLine, nstmt>>

\* the exception leaves Barista.run: RuntimeError is the end the error sink
\* makes; any other exception is one the interpreter did not report
Terminate ==
    /\ phase \in {"build", "run"}
    /\ ctl.m = "raise"
    /\ kont = <<>>
    /\ phase' = IF ctl.exc = "RuntimeError" THEN "error" ELSE "crash"
    /\ UNCHANGED <<prog, inp, loadIdx, classes, templates, objs, boxes, plates, params, ctl, kont, out,
                   errType, errLine, nstmt>>

(***************************************************************************)
(* The specification                                                      *)
(***************************************************************************)
Init ==
    /\ prog \in 1..Len(Programs)
    /\ inp \in Programs[prog].inputs
    /\ phase = "register"
    /\ loadIdx = 1
    /\ classes = EmptyMap
    /\ templates = EmptyMap
    /\ objs = <<>>
    /\ boxes = <<>>
    /\ plates = <<>>
    /\ params = <<>>
    /\ ctl = CHalt
    /\ kont = <<>>
    /\ out = <<>>
    /\ errType = ""
    /\ errLine = 0
    /\ nstmt = 0

Next ==
    \/ Register \/ AddClass \/ AddTemplate \/ StartMain
    \/ StmtBegin \/ ContSeq \/ StmtIf \/ ContIf \/ StmtWhile \/ ContWhileCond
    \/ ContWhileBody \/ StmtOutput \/ ContOutput \/ StmtReturn0 \/ StmtReturn
    \/ ContReturn \/ StmtSet \/ ContSet \/ StmtInputI \/ StmtInputS \/ StmtLet
    \/ StmtThrow \/ ContThrow \/ StmtTry \/ ContTry \/ Catch \/ ContExcept
    \/ StmtInvalid
    \/ ExprMe \/ ExprSuper \/ ExprException \/ ExprVariable \/ ExprConst \/ ExprNew
    \/ ExprUnary \/ ContUnary \/ ExprBinary \/ ContBinLeft \/ ContBinRight
    \/ StmtCall \/ ExprCall \/ ContCallTarget \/ ContCallArg \/ CallMethod
    \/ InstructionCall \/ ContInstr \/ ContCallMethod \/ FallThrough \/ ContCallSite
    \/ CallSiteError \/ RunDone \/ RunError \/ Propagate \/ Terminate

Spec == Init /\ [][Next]_vars


(***************************************************************************)
(* Properties                                                             *)
(*                                                                         *)
(* What follows is read off the state of the walk: the invocations that   *)
(* are suspended in kont, the environments they hold and the heaps.       *)
(***************************************************************************)
ThisProgram(p) == Programs[prog].forms = p
Finished == phase \in {"done", "error", "crash"}

\* the environments of the invocations in progress
FramesWithEnv == {i \in 1..Len(kont) : "env" \in DOMAIN kont[i]}
LiveEnvs == {kont[i].env : i \in FramesWithEnv}
                \cup (IF ctl.m \in {"stmt", "expr"} THEN {ctl.env} ELSE {})

\* the plates of a stack, innermost first
RECURSIVE PlateChain(_)
PlateChain(p) == IF p = 0 THEN <<>> ELSE <<p>> \o PlateChain(plates[p].under)
Range(s) == {s[i] : i \in 1..Len(s)}

\* the variable slots in use: the fields of the objects, the parameters and
\* the let-locals of the invocations in progress
LiveSlots ==
    UNION {{objs[o].fields[n] : n \in DOMAIN objs[o].fields} : o \in 1..Len(objs)}
      \cup UNION {{params[e.parameters][n] : n \in DOMAIN params[e.parameters]} :
                    e \in {x \in LiveEnvs : x.parameters # 0}}
      \cup UNION {{plates[p].locals[n] : n \in DOMAIN plates[p].locals} :
                    p \in UNION {Range(PlateChain(e.stack)) : e \in LiveEnvs}}

\* assignability of a value to a declared type: the kind of a primitive
\* type; for a class type null or an object of the class or of a
\* descendant, and a class tag on a null has to be assignable too
Assignable(t, b) ==
    CASE t = "int"    -> b.kind = "int"
      [] t = "string" -> b.kind = "str"
      [] t = "bool"   -> b.kind = "bool"
      [] OTHER ->
           \/ b.kind = "obj" /\ IsInstance(objs, b.i, t)
           \/ /\ b.kind = "null"
              /\ b.btype \in DOMAIN classes => IsInstanceClass(classes, b.btype, t)

\* C1: every variable slot in use (field, parameter, let-local) holds a
\* value assignable to the declared type of the slot, the class tag of a
\* null included.
SlotTypeInvariant == \A t \in LiveSlots : Assignable(t.btype, boxes[t.box])

\* C6: a run that ends because a user exception was thrown with no try
\* around it ends through the error sink, with error kind FAULT and the
\* line of the throw.
UncaughtThrowIsFault ==
    (Finished /\ ctl.m = "raise" /\ ctl.exc = "Complaint")
        => (phase = "error" /\ errType = "FAULT" /\ errLine > 0)

\* position of the innermost frame of kind f among the first n of kont, 0 if none
RECURSIVE Nearest(_, _)
Nearest(f, n) ==
    IF n = 0 THEN 0
    ELSE IF kont[n].f = f THEN n
    ELSE Nearest(f, n - 1)

\* the object part and the arguments the call in progress was made with:
\* those of the innermost call statement or expression, or of Barista.run
DispatchStart ==
    LET j == Nearest("callsite", Len(kont)) IN
    IF j = 0 THEN [obj |-> kont[1].obj, args |-> <<>>]
    ELSE [obj |-> boxes[kont[j].target].i, args |-> kont[j].done]

\* the class of part o defines the method with formals that take the arguments
Accepts(o, name, args) ==
    /\ HasMethod(ClassOfObj(o), name)
    /\ LET fs == MethodOf(ClassOfObj(o), name).formals IN
       /\ Len(fs) = Len(args)
       /\ \A k \in 1..Len(fs) : Assignable(fs[k].btype, boxes[args[k]])

\* the first part on the chain o, parent(o), ... that accepts, 0 if none
RECURSIVE MostDerived(_, _, _)
MostDerived(o, name, args) ==
    IF o = 0 THEN 0
    ELSE IF Accepts(o, name, args) THEN o
    ELSE MostDerived(objs[o].parent, name, args)

\* C2: whenever the body of a method starts for a call, it is the method of
\* the most-derived class on the chain of the call's target whose formals
\* accept the arguments.
MostDerivedBodyRuns ==
    [][(ctl.m = "call" /\ ctl'.m = "stmt")
         => ctl.call.self = MostDerived(DispatchStart.obj, ctl.call.name,
                                        DispatchStart.args)]_vars

\* the receiver of the user-initiated call the method invocation of the
\* "instr" frame at position i serves: the object the call was made on,
\* and for a call on super the receiver of the method that made it
RECURSIVE Receiver(_)
Receiver(i) ==
    LET j == Nearest("callsite", i - 1) IN
    IF j = 0 THEN kont[1].obj
    ELSE IF kont[j].node.target.op = "super" THEN Receiver(Nearest("instr", j - 1))
    ELSE boxes[kont[j].target].i

\* C3: in every method body, whatever class of the chain it was found in and
\* whether it was reached by a call on super or by falling through to an
\* ancestor, me is the receiver of the user-initiated call; so the student
\* whose getMe goes through super is the object getMe returns, and a call on
\* me inside an ancestor's method runs the most-derived override.
ReceiverPreserved ==
    /\ phase = "run" =>
         /\ \A i \in FramesWithEnv : kont[i].env.me = Receiver(Nearest("instr", i))
         /\ ctl.m \in {"stmt", "expr"} => ctl.env.me = Receiver(Nearest("instr", Len(kont)))
    /\ (ThisProgram(PGetMe) /\ phase = "done") => out = <<"true", "student", "student">>

\* a body of an ancestor part, reached by a call on super, is running with
\* the receiver as me
ReceiverPreservedWitness ==
    /\ phase = "run"
    /\ ctl.m = "stmt"
    /\ Top(kont).f = "instr"
    /\ Top(kont).call.self # ctl.env.me
    /\ kont[Nearest("callsite", Len(kont))].node.target.op = "super"
    /\ ctl.env.me = Receiver(Len(kont))

\* a user exception is on its way out of the invocations in progress
UserExceptionInFlight == phase = "run" /\ ctl.m = "raise" /\ ctl.exc = "Complaint" /\ kont # <<>>

\* one step of a user exception: it leaves an invocation that is no try
\* without anything being executed, or it starts the handler of the try
\* whose body it leaves, with the thrown string as exception
ExceptionStep ==
    UserExceptionInFlight =>
        /\ out' = out
        /\ nstmt' = nstmt
        /\ IF Top(kont).f = "try"
           THEN /\ boxes[ctl.box].kind = "str"
                /\ ctl' = CStmt(Top(kont).handler, [Top(kont).env EXCEPT !.exception = ctl.box])
                /\ Pop(kont') = Pop(kont)
           ELSE /\ kont' = Pop(kont)
                /\ ctl' = ctl

\* the body of a try ends without an exception: the try statement ends and
\* nothing of the handler is executed
BodyEndStep ==
    (phase = "run" /\ ctl.m = "order" /\ Top(kont).f = "try") =>
        /\ kont' = Pop(kont)
        /\ ctl'.m = "order"
        /\ ctl'.flag = ctl.flag
        /\ nstmt' = nstmt

\* the handler ends: the try statement ends, and what follows it is next
HandlerEndStep ==
    (phase = "run" /\ ctl.m = "order" /\ Top(kont).f = "except") =>
        /\ kont' = Pop(kont)
        /\ ctl'.m = "order"
        /\ ctl'.flag = ctl.flag
        /\ nstmt' = nstmt

\* C4: a user exception raised in the body of a try, also from inside a
\* while or a called method, skips the rest of the body, runs the handler
\* once with exception bound to the thrown string, and the statement after
\* the try follows; a body that raises nothing leaves the handler unrun.
TryCatchFlow ==
    /\ [][ExceptionStep /\ BodyEndStep /\ HandlerEndStep]_vars
    /\ [](ThisProgram(PExample1) /\ phase = "done" =>
            out = <<"hi", "hello", "I got this exception: I ran into a problem!",
                    "this runs whether or not an exception occurs">>)
    /\ [](ThisProgram(PTermination) /\ Finished =>
            phase = "done" /\ out = <<"hello", "argh", "blah", "quiet", "woot!">>)

\* the handler starts for an exception thrown in a while loop of a method
\* called from the body of the try
TryCatchFlowWitness ==
    /\ ThisProgram(PTermination)
    /\ phase = "run"
    /\ ctl.m = "stmt"
    /\ Top(kont).f = "except"
    /\ ctl.env.exception # 0
    /\ boxes[ctl.env.exception].s = "blah"
    /\ out = <<"hello", "argh">>

\* C5: a user exception goes to the innermost try whose body is running,
\* through method calls and let frames; the try of a handler that is running
\* does not get the exceptions of its handler, and each handler sees the
\* exception that reached it.
NearestTryCatches ==
    /\ [][UserExceptionInFlight =>
            LET n == Nearest("try", Len(kont)) IN
            n > 0 =>
              /\ Len(kont') >= n
              /\ SubSeq(kont', 1, n - 1) = SubSeq(kont, 1, n - 1)
              /\ Len(kont) > n => (kont'[n] = kont[n] /\ ctl' = ctl)
              /\ Len(kont) = n =>
                   /\ ctl'.m = "stmt"
                   /\ ctl'.node = kont[n].handler
                   /\ ctl'.env.exception = ctl.box
                   /\ Len(kont') = n
                   /\ ~ Catches(kont'[n], "Complaint")]_vars
    /\ [](ThisProgram(PNested) /\ Finished =>
            phase = "done" /\ out = <<"up", "World!", "foo">>)

\* an exception thrown by a handler, inside a let, is in flight with the try
\* of that handler still suspended and an outer try to go to
NearestTryCatchesWitness ==
    /\ UserExceptionInFlight
    /\ boxes[ctl.box].s = "foo"
    /\ \E i \in 1..Len(kont) : kont[i].f = "except" /\ Nearest("try", Len(kont)) \in 1..(i - 1)
    /\ Top(kont).f = "seq"
    /\ Top(kont).kind = "let"

ErrorKinds == {"SYNTAX", "TYPE", "NAME", "FAULT"}

\* C7: once the error sink has been given a SYNTAX, TYPE, NAME or FAULT
\* error, no statement starts, nothing is output, read or stored, and the
\* error stays as reported: no handler of a try and no method of a parent
\* runs for it, and the run ends as an error.
SystemErrorsTerminal ==
    /\ [][errType # "" =>
            /\ errType' = errType
            /\ errLine' = errLine
            /\ out' = out
            /\ nstmt' = nstmt
            /\ inp' = inp
            /\ objs' = objs
            /\ plates' = plates
            /\ params' = params
            /\ ctl' = ctl]_vars
    /\ [](errType # "" => errType \in ErrorKinds /\ ctl.m = "raise" /\ ctl.exc = "RuntimeError")
    /\ [](Finished /\ errType # "" => phase = "error")

\* an error has been reported inside the body of a try, in a method of a
\* class with a parent
SystemErrorsTerminalWitness ==
    /\ phase = "run"
    /\ errType \in ErrorKinds
    /\ Nearest("try", Len(kont)) > 0
    /\ Nearest("call_method", Len(kont)) > Nearest("try", Len(kont))
    /\ Nearest("instr", Len(kont)) > Nearest("call_method", Len(kont))

\* the plates of the let statements in progress in the method invocation
\* the frame at position n belongs to, innermost first
RECURSIVE LetPlates(_)
LetPlates(n) ==
    IF n = 0 \/ kont[n].f = "instr" THEN <<>>
    ELSE IF kont[n].f = "seq" /\ kont[n].kind = "let"
    THEN <<kont[n].env.stack>> \o LetPlates(n - 1)
    ELSE LetPlates(n - 1)

\* the names let statements have declared so far
LocalNames == UNION {DOMAIN plates[p].locals : p \in 1..Len(plates)}

\* the variable a set, inputi or inputs statement in progress is about
TargetOfStep ==
    IF ctl.m = "stmt" /\ ctl.node.op \in {"inputi", "inputs"}
    THEN [name |-> ctl.node.var, env |-> ctl.env]
    ELSE IF ctl.m = "val" /\ kont # <<>> /\ Top(kont).f = "set"
    THEN [name |-> Top(kont).name, env |-> Top(kont).env]
    ELSE [name |-> "", env |-> NoEnv]

\* a let-local changes only in a set, inputi or inputs step whose variable
\* resolves to it
LocalsKeepValues ==
    \A p \in 1..Len(plates) : \A n \in DOMAIN plates[p].locals :
        plates'[p].locals[n] # plates[p].locals[n] =>
            /\ TargetOfStep.name = n
            /\ Resolve(n, TargetOfStep.env) = [w |-> "plate", id |-> p]

\* C8: the let-locals that can be resolved are those of the let statements
\* still in progress in the current method invocation: a let that was left,
\* by its end, by a return or by a user exception, has none of its
\* variables resolvable, and what it shadowed is found again, changed only
\* by the assignments that were made to it.
LetTeardown ==
    /\ [](phase = "run" =>
            /\ \A i \in FramesWithEnv : PlateChain(kont[i].env.stack) = LetPlates(i)
            /\ ctl.m \in {"stmt", "expr"} =>
                 /\ PlateChain(ctl.env.stack) = LetPlates(Len(kont))
                 /\ \A n \in LocalNames :
                      Resolve(n, ctl.env).w = "plate" =>
                          Resolve(n, ctl.env).id \in Range(LetPlates(Len(kont))))
    /\ [][LocalsKeepValues]_vars

\* after the inner let of h was left by a user exception, the handler reads
\* a: the string a of the outer let, not the bool a of the let that was left
LetTeardownWitness ==
    /\ ThisProgram(PLet)
    /\ phase = "run"
    /\ ctl.m = "expr"
    /\ ctl.node.op = "tok"
    /\ ctl.node.name = "a"
    /\ Nearest("except", Len(kont)) > Nearest("instr", Len(kont))
    /\ \E p \in 1..Len(plates) : "q" \in DOMAIN plates[p].locals
    /\ Resolve("a", ctl.env).w = "plate"
    /\ TinOf(Resolve("a", ctl.env), "a").btype = "string"

\* the first plate of a sequence that has the name, 0 if none
RECURSIVE FirstWith(_, _)
FirstWith(ps, name) ==
    IF ps = <<>> THEN 0
    ELSE IF name \in DOMAIN plates[Head(ps)].locals THEN Head(ps)
    ELSE FirstWith(Tail(ps), name)

\* the slot a name stands for at the frame at position n: the let frames of
\* the method invocation in progress from the innermost to the outermost,
\* then the parameters of the invocation, then the fields of the object
\* part the method belongs to
SlotOf(name, n) ==
    LET i == Nearest("instr", n)
        p == FirstWith(LetPlates(n), name)
    IN IF p # 0 THEN [w |-> "plate", id |-> p]
       ELSE IF name \in DOMAIN params[kont[i].parameters]
       THEN [w |-> "param", id |-> kont[i].parameters]
       ELSE IF name \in DOMAIN objs[kont[i].call.self].fields
       THEN [w |-> "field", id |-> kont[i].call.self]
       ELSE [w |-> "none", id |-> 0]

\* after the step slot s of that name holds Ingredient b, and every other
\* slot holds what it held
StoredIn(s, name, b) ==
    /\ \A p \in 1..Len(plates) : \A n \in DOMAIN plates[p].locals :
         plates'[p].locals[n].box =
             IF s.w = "plate" /\ s.id = p /\ n = name THEN b ELSE plates[p].locals[n].box
    /\ \A p \in 1..Len(params) : \A n \in DOMAIN params[p] :
         params'[p][n].box =
             IF s.w = "param" /\ s.id = p /\ n = name THEN b ELSE params[p][n].box
    /\ \A o \in 1..Len(objs) : \A n \in DOMAIN objs[o].fields :
         objs'[o].fields[n].box =
             IF s.w = "field" /\ s.id = o /\ n = name THEN b ELSE objs[o].fields[n].box

\* reading an identifier
ReadStep ==
    (phase = "run" /\ ctl.m = "expr" /\ ctl.node.op = "tok" /\ ctl.node.lit = "none") =>
        LET s == SlotOf(ctl.node.name, Len(kont)) IN
        IF s.w = "none" THEN errType' = "NAME"
        ELSE errType' = "" /\ ctl' = CVal(TinOf(s, ctl.node.name).box)

\* set: the lookup when the statement starts, the store when the value is there
SetStep ==
    /\ (phase = "run" /\ ctl.m = "stmt" /\ ctl.node.op = "set") =>
          (errType' = "NAME") = (SlotOf(ctl.node.var, Len(kont)).w = "none")
    /\ (phase = "run" /\ ctl.m = "val" /\ Top(kont).f = "set" /\ errType' = "") =>
          /\ SlotOf(Top(kont).name, Len(kont)).w # "none"
          /\ StoredIn(SlotOf(Top(kont).name, Len(kont)), Top(kont).name, ctl.box)

\* inputi and inputs
InputStep ==
    (phase = "run" /\ ctl.m = "stmt" /\ ctl.node.op \in {"inputi", "inputs"}) =>
        LET s == SlotOf(ctl.node.var, Len(kont)) IN
        IF s.w = "none" THEN errType' = "NAME"
        ELSE errType' = "" => StoredIn(s, ctl.node.var, Len(boxes) + 1)

\* C9: an identifier that is read, and the variable of set, inputi and
\* inputs, stand for the first slot of that name among the let frames of the
\* current method invocation from the innermost to the outermost, then the
\* parameters of the invocation, then the fields of the object; with no such
\* slot the result is a NAME error.  The let-locals of the calling method
\* are not searched.
ResolutionOrder == [][ReadStep /\ SetStep /\ InputStep]_vars

\* the callee k reads x, a let-local of its caller main: NAME error
ResolutionOrderWitness ==
    /\ ThisProgram(PLet)
    /\ phase = "run"
    /\ errType = "NAME"
    /\ \E i \in 1..(Nearest("instr", Len(kont)) - 1) :
          /\ kont[i].f = "seq"
          /\ kont[i].kind = "let"
          /\ "x" \in DOMAIN plates[kont[i].env.stack].locals

\* a return has been executed and is on its way out of the method
ReturnInFlight == phase = "run" /\ ctl.m = "order" /\ ctl.flag

\* one step of a return: it leaves the innermost begin, while, let or try
\* and stays as it is, or it ends the method invocation, which gives the
\* returned value as its service when the value has the type of the method
ReturnStep ==
    ReturnInFlight =>
        /\ nstmt' = nstmt
        /\ out' = out
        /\ kont' = Pop(kont)
        /\ IF Top(kont).f = "instr"
           THEN IF ctl.box # 0 /\ Assignable(Top(kont).btype, boxes[ctl.box])
                               /\ Top(kont).btype # "void"
                THEN ctl'.m = "service" /\ ctl'.box = ctl.box
                ELSE ctl'.m \in {"service", "raise"}
           ELSE /\ Top(kont).f \in {"seq", "whilebody", "try", "except"}
                /\ ctl' = ctl

\* the service of a method goes to the call that asked for it, and the
\* caller goes on with it: the call statement is done, the call expression
\* has the value
ServiceStep ==
    (phase = "run" /\ ctl.m = "service") =>
        /\ nstmt' = nstmt
        /\ out' = out
        /\ Top(kont).f \in {"call_method", "callsite", "run"}
        /\ Top(kont).f = "call_method" => (kont' = Pop(kont) /\ ctl' = ctl)
        /\ (Top(kont).f = "callsite" /\ Top(kont).isStmt) =>
              (kont' = Pop(kont) /\ ctl' = COrder(FALSE, 0))
        /\ (Top(kont).f = "callsite" /\ ~ Top(kont).isStmt /\ ctl.box # 0) =>
              (kont' = Pop(kont) /\ ctl' = CVal(ctl.box))

\* C10: once a return statement has been executed no further statement of
\* the method invocation is executed, however deep in begin, if, while, let
\* and try statements (body or handler) the return is; the value goes to the
\* caller, which goes on right after the call.
ReturnPropagates ==
    /\ [][ReturnStep /\ ServiceStep]_vars
    /\ [](ThisProgram(PReturn) /\ Finished =>
            /\ phase = "done"
            /\ out[Len(out)] = "done"
            /\ "after let" \notin Range(out)
            /\ "not here" \notin Range(out))

\* a return executed in the handler of a try, inside a while inside a let,
\* is on its way out
ReturnPropagatesWitness ==
    /\ ThisProgram(PReturn)
    /\ ReturnInFlight
    /\ ctl.box # 0
    /\ boxes[ctl.box].i = 77
    /\ Top(kont).f = "seq"
    /\ Nearest("except", Len(kont)) > Nearest("whilebody", Len(kont))
    /\ Nearest("whilebody", Len(kont)) > Nearest("instr", Len(kont))
    /\ LetPlates(Len(kont)) # <<>>

\* the body of a method invocation has ended with no value: it completed
\* without a return, or a bare (return) was executed
BodyEndedWithoutValue ==
    /\ phase = "run"
    /\ ctl.m = "order"
    /\ kont # <<>>
    /\ Top(kont).f = "instr"
    /\ ~ (ctl.flag /\ ctl.box # 0)

IsDefaultOf(t, b) ==
    CASE t = "int"    -> b.kind = "int" /\ b.i = 0
      [] t = "string" -> b.kind = "str" /\ b.s = ""
      [] t = "bool"   -> b.kind = "bool" /\ b.i = 0
      [] OTHER        -> b.kind = "null"

DefaultStep ==
    BodyEndedWithoutValue =>
        /\ ctl'.m = "service"
        /\ IF Top(kont).btype = "void"
           THEN ctl'.box = 0
           ELSE /\ ctl'.box # 0
                /\ IsDefaultOf(Top(kont).btype, boxes'[ctl'.box])

\* no value arrives where a call expression needs one
VoidValueStep ==
    (/\ phase = "run"
     /\ ctl.m = "service"
     /\ ctl.box = 0
     /\ Top(kont).f = "callsite"
     /\ ~ Top(kont).isStmt)
        => (ctl'.m = "raise" /\ ctl'.exc = "RuntimeError" /\ errType' = "TYPE")

StoreRef ==
    IF ctl.m = "stmt" /\ ctl.node.op \in {"inputi", "inputs"}
    THEN Resolve(ctl.node.var, ctl.env)
    ELSE IF ctl.m = "val" /\ kont # <<>> /\ Top(kont).f = "set"
    THEN Top(kont).ref
    ELSE [w |-> "none", id |-> 0]

\* a field as a program can observe it: the declared type and the value
\* with the type tag the value carries
FieldOf(os, bs, o, n) == [btype |-> os[o].fields[n].btype, value |-> bs[os[o].fields[n].box]]

\* C12: a set, inputi or inputs on a field of one object leaves every field
\* of every other object as it was, in its value and in the type tag of
\* the value.
SetLeavesOtherObjects ==
    [][\A o \in 1..Len(objs) :
          (phase = "run" /\ StoreRef = [w |-> "field", id |-> o]) =>
              \A q \in (1..Len(objs)) \ {o} : \A n \in DOMAIN objs[q].fields :
                  FieldOf(objs', boxes', q, n) = FieldOf(objs, boxes, q, n)]_vars

\* C13: every class of the program that is loaded has the parent its
\* declaration names, so that is_instance of the class is true for the
\* parent.
DeclaredParentKept ==
    \A k \in 1..Len(Program) :
        (/\ Program[k].parent # ""
         /\ Program[k].name \in DOMAIN classes
         /\ classes[Program[k].name].built)
            => IsInstanceClass(classes, Program[k].name, Program[k].parent)

\* the type names of the let definitions of a statement and its parts
RECURSIVE LocalTypes(_)
LocalTypes(n) ==
    LET Each(s) == UNION {LocalTypes(s[k]) : k \in 1..Len(s)}
    IN CASE n.op = "let" -> {n.defs[k].btype : k \in 1..Len(n.defs)} \cup Each(n.ss)
         [] n.op = "begin" -> Each(n.ss)
         [] n.op = "if" -> LocalTypes(n.then)
         [] n.op = "ifelse" -> LocalTypes(n.then) \cup LocalTypes(n.else)
         [] n.op = "while" -> LocalTypes(n.body)
         [] n.op = "try" -> LocalTypes(n.body) \cup LocalTypes(n.handler)
         [] OTHER -> {}

\* the type names a class body declares fields, return values and formals
\* with: the names looked at when the class is built
MemberTypes(form) ==
    UNION {IF form.members[k].m = "field"
           THEN {form.members[k].btype}
           ELSE ({form.members[k].btype} \ {"void"})
                \cup {form.members[k].formals[j].btype :
                          j \in 1..Len(form.members[k].formals)}
           : k \in 1..Len(form.members)}

\* those and the type names of the locals of its methods
BodyTypes(form) ==
    MemberTypes(form)
    \cup UNION {LocalTypes(form.members[k].body) :
                   k \in {j \in 1..Len(form.members) : form.members[j].m = "method"}}

\* a type name the program declares, before or after the place it is used
\* at: a primitive, a class, or a template with one class or primitive for
\* each of its type parameters
ProgramClasses == {Program[k].name : k \in {j \in 1..Len(Program) : ~ Program[j].tclass}}
IsDeclaredType(t) ==
    LET l == T2L(t) IN
    IF Len(l) = 1 THEN t \in PrimTypes \cup ProgramClasses
    ELSE /\ \E k \in 1..Len(Program) :
               /\ Program[k].tclass
               /\ Program[k].name = l[1]
               /\ Len(Program[k].field_types) = Len(l) - 1
         /\ \A j \in 2..Len(l) : l[j] \in PrimTypes \cup ProgramClasses

\* the programs that differ in one type name of one declaration only
TypeSites == {"field0", "field", "return", "param", "local0", "local"}
IsTypeUse ==
    \E site \in TypeSites :
        \E t \in UNION {BodyTypes(Program[k]) : k \in 1..Len(Program)} :
            Program = PTypeUse(site, t)

\* C14: a program whose class bodies declare their fields, return values,
\* formals and locals with type names the program declares, before or after
\* the class that uses them, is loaded and run without an error.
ForwardReferencesLoad ==
    (/\ IsTypeUse
     /\ \A k \in 1..Len(Program) :
            ~ Program[k].tclass => \A t \in BodyTypes(Program[k]) : IsDeclaredType(t))
        => phase \notin {"error", "crash"}

\* the instantiations of templates in the registry, and what one more
\* compile of such an instantiation gives in the state
Instantiations ==
    {n \in DOMAIN classes \cap Compound :
        /\ classes[n].built
        /\ T2L(n)[1] \in DOMAIN templates
        /\ templates[T2L(n)[1]].built}
CompileAgain(n) ==
    Compile(templates[T2L(n)[1]], Tail(T2L(n)), classes, templates, MaxCompileDepth)

\* C15: a compile of a template with type arguments it was compiled with
\* before ends without an error and leaves the registry as it is: the class
\* under the name is the one the first compile registered, and no entry is
\* added, removed or changed; so does a new of the instantiation.
MemoizationIdempotent ==
    /\ [](\A n \in Instantiations : CompileAgain(n) = [e |-> NoErr, reg |-> classes])
    /\ [][(AtExpr("new") /\ ctl.node.name \in Instantiations) => classes' = classes]_vars

\* two objects of one instantiation: the second new found the class compiled
MemoizationIdempotentWitness ==
    \E o, q \in 1..Len(objs) :
        /\ o # q
        /\ objs[o].name = objs[q].name
        /\ objs[o].name \in Instantiations

\* a name with type arguments that is not an instantiation of a template of
\* the program with one class or primitive for each type parameter
InvalidInstantiation(t) == t \in Compound /\ ~ IsDeclaredType(t)

\* the step ends in the error sink with a TYPE error
TypeErrorStep == ctl'.m = "raise" /\ ctl'.exc = "RuntimeError" /\ errType' = "TYPE"

\* C16: a type name T@A... with a type argument that is not a known type, or
\* with another number of type arguments than T has type parameters, gives
\* a TYPE error where a class is built with it as the type of a field, a
\* return value or a formal, where a let declares a local with it, and where
\* new is applied to it; and no class is ever registered under such a name.
InstantiationValidated ==
    /\ [](\A n \in DOMAIN classes \cap Compound : IsDeclaredType(n))
    /\ [][(/\ phase = "build" /\ ctl.m = "halt" /\ loadIdx <= Len(Program)
           /\ ~ Program[loadIdx].tclass
           /\ \E t \in MemberTypes(Program[loadIdx]) : InvalidInstantiation(t))
              => TypeErrorStep]_vars
    /\ [][(/\ AtStmt("let")
           /\ \E k \in 1..Len(ctl.node.defs) : InvalidInstantiation(ctl.node.defs[k].btype))
              => TypeErrorStep]_vars
    /\ [][(AtExpr("new") /\ InvalidInstantiation(ctl.node.name)) => TypeErrorStep]_vars

\* control is in the handler of a try, in this invocation or in one that
\* called it: the except clause of that try is not left yet
InHandler == \E i \in 1..Len(kont) : kont[i].f = "except"

\* the statement that goes on when the try on top of kont has completed
TryEnclosed ==
    /\ kont # <<>>
    /\ Top(kont).f \in {"try", "except"}
    /\ Len(kont) > 1
    /\ kont[Len(kont) - 1].f \in {"seq", "while"}

\* C17: the begin, let or while a try statement stands in goes on, after the
\* try, with the exception the try started with; exception is bound exactly
\* where control is in a handler, and is a NAME error elsewhere, so also
\* after a try at the top of main, whether its handler ran or not; after a
\* try inside a handler it is again the string of that handler.
ExceptionScope ==
    /\ TryEnclosed => kont[Len(kont) - 1].env.exception = Top(kont).env.exception
    /\ AtExpr("exception") => (ctl.env.exception # 0 <=> InHandler)
    /\ (ThisProgram(PScope) /\ Finished) =>
           /\ phase = "error" /\ errType = "NAME"
           /\ out = <<"outer", "inner", "outer", "quiet", "outer", "calm">>

\* exception is evaluated after a try whose handler ran and one whose
\* handler did not, and is not bound
ExceptionScopeWitness ==
    /\ ThisProgram(PScope)
    /\ AtExpr("exception")
    /\ ctl.env.exception = 0
    /\ Len(out) = 6

\* the target of a call has been evaluated and is null
NullTarget == Back("val", "calltarget") /\ boxes[ctl.box].kind = "null"

\* C18: when the target of a call, statement or expression, is null, no
\* argument of the call has been evaluated, the next step is the FAULT error
\* on the line of the call, and from the error on nothing is printed and no
\* statement is run: no argument is evaluated and no method body runs.
NullDereference ==
    /\ [][NullTarget =>
            /\ Top(kont).done = <<>>
            /\ Top(kont).rest = Top(kont).node.args
            /\ ctl'.m = "raise" /\ ctl'.exc = "RuntimeError"
            /\ errType' = "FAULT" /\ errLine' = Top(kont).node.line]_vars
    /\ [][errType = "FAULT" =>
            /\ errType' = "FAULT"
            /\ out' = out /\ nstmt' = nstmt /\ boxes' = boxes /\ objs' = objs
            /\ ctl'.m = "raise"]_vars
    /\ [](ThisProgram(PNullCall) /\ Finished =>
            /\ phase = "error" /\ errType = "FAULT"
            /\ out = <<"argument evaluated", "body runs", "1">>)

\* the run has ended with the FAULT of a call, as an expression, on null
\* with an argument
NullDereferenceWitness ==
    /\ ThisProgram(PNullCall)
    /\ inp = <<>>
    /\ phase = "error"
    /\ errType = "FAULT"
    /\ kont = <<>>
    /\ \E o \in 1..Len(objs) : boxes[objs[o].fields["which"].box].i = 1

RECURSIVE Factorial(_)
Factorial(n) == IF n = 0 THEN 1 ELSE n * Factorial(n - 1)

\* the number the factorial program has read
NumRead == boxes[objs[1].fields["num"].box].i

\* C19: a while statement starts with its condition; a condition that is
\* true is followed by the body, once, and the body by the condition again
\* unless it returned; a condition that is false ends the statement.  The
\* factorial program ends, for every number n it reads, with the two lines
\* `Enter a number: ` and `<n> factorial is <n!>`, having run the three
\* statements of the body n times.
WhileFactorial ==
    /\ [][AtStmt("while") =>
            /\ ctl' = CExpr(ctl.node.cond, ctl.env)
            /\ Top(kont').f = "while"]_vars
    /\ [][(Back("val", "while") /\ boxes[ctl.box].kind = "bool") =>
            IF boxes[ctl.box].i = 1
            THEN /\ ctl' = CStmt(Top(kont).node.body, Top(kont).env)
                 /\ Top(kont').f = "whilebody"
                 /\ Len(kont') = Len(kont)
            ELSE /\ ctl' = COrder(FALSE, 0)
                 /\ kont' = SubSeq(kont, 1, Len(kont) - 1)]_vars
    /\ [][(Back("order", "whilebody") /\ ~ Returns(ctl)) =>
            /\ ctl' = CExpr(Top(kont).node.cond, Top(kont).env)
            /\ Top(kont').f = "while"
            /\ Len(kont') = Len(kont)]_vars
    /\ [](ThisProgram(PFactorial) /\ Finished =>
            /\ phase = "done"
            /\ inp = <<>>
            /\ \E n \in 0..(MaxInput + 3) :
                  /\ NumRead = n
                  /\ out = <<"Enter a number: ",
                             IntStr(n) \o " factorial is " \o IntStr(Factorial(n))>>
                  /\ nstmt = 8 + 3 * n)

\* the factorial program has ended for the number 5 with 120
WhileFactorialWitness ==
    /\ ThisProgram(PFactorial)
    /\ phase = "done"
    /\ NumRead = 5
    /\ out = <<"Enter a number: ", "5 factorial is 120">>

\* two elements of the sequence have one name
HasDuplicate(s) == \E i, j \in 1..Len(s) : i < j /\ s[i].name = s[j].name

\* the members of the kind in the body of a declaration
MembersOf(form, kind) == SelectSeq(form.members, LAMBDA m : m.m = kind)

\* the declaration that is built next, when there is one
Loading == phase = "build" /\ ctl.m = "halt" /\ loadIdx <= Len(Program)

\* the declaration that is built next has the name of an earlier one of
\* its kind
Redeclared ==
    \E j \in 1..(loadIdx - 1) :
        /\ Program[j].name = Program[loadIdx].name
        /\ Program[j].tclass = Program[loadIdx].tclass

\* the step ends in the error sink with a NAME error
NameErrorStep == ctl'.m = "raise" /\ ctl'.exc = "RuntimeError" /\ errType' = "NAME"

\* C20: a second class or template of one name is a TYPE error when it is
\* to be built; a class with two fields or two methods of one name, or a
\* method with two formals of one name, is a NAME error when it is built; a
\* let with two locals of one name is a NAME error when it is run.  An error
\* while loading leaves no output and no statement run, and after any error
\* nothing is printed and no statement runs.
DuplicatesRejected ==
    /\ [][(Loading /\ Redeclared) => TypeErrorStep]_vars
    /\ [][(/\ Loading /\ ~ Redeclared /\ ~ Program[loadIdx].tclass
           /\ \/ HasDuplicate(MembersOf(Program[loadIdx], "field"))
              \/ HasDuplicate(MembersOf(Program[loadIdx], "method"))
              \/ \E k \in 1..Len(Program[loadIdx].members) :
                    /\ Program[loadIdx].members[k].m = "method"
                    /\ HasDuplicate(Program[loadIdx].members[k].formals))
              => NameErrorStep]_vars
    /\ [][(AtStmt("let") /\ HasDuplicate(ctl.node.defs)) => NameErrorStep]_vars
    /\ [][errType # "" =>
            /\ errType' = errType
            /\ out' = out /\ nstmt' = nstmt
            /\ phase' \in {phase, "error"}]_vars
    /\ []((phase = "error" /\ loadIdx <= Len(Program)) => (out = <<>> /\ nstmt = 0))
    /\ [](Finished =>
            /\ ThisProgram(PDupClass) \/ ThisProgram(PDupTemplate)
                  => phase = "error" /\ errType = "TYPE" /\ out = <<>>
            /\ ThisProgram(PDupField) \/ ThisProgram(PDupMethod) \/ ThisProgram(PDupFormal)
                  => phase = "error" /\ errType = "NAME" /\ out = <<>>
            /\ ThisProgram(PDupLocal)
                  => phase = "error" /\ errType = "NAME" /\ out = <<"inner 2", "outer 1">>)

\* the class with two formals of one name was rejected when it was built
DuplicatesRejectedWitness ==
    /\ ThisProgram(PDupFormal)
    /\ phase = "error"
    /\ errType = "NAME"
    /\ loadIdx = 2

\* the Ingredient a resolved name holds, in the heaps given
SlotValue(ps, prm, os, bs, ref, name) ==
    CASE ref.w = "plate" -> bs[ps[ref.id].locals[name].box]
      [] ref.w = "param" -> bs[prm[ref.id][name].box]
      [] OTHER           -> bs[os[ref.id].fields[name].box]

\* an inputi or inputs on a variable there is, with no line of input left
InputExhausted ==
    /\ Running
    /\ ctl.m = "stmt"
    /\ ctl.node.op \in {"inputi", "inputs"}
    /\ inp = <<>>
    /\ StoreRef.w # "none"

\* C21: an inputi or inputs that finds no line of input is a TYPE error, and
\* the variable holds after it the value it held before.
InputExhaustionIsTypeError ==
    [][InputExhausted =>
          /\ TypeErrorStep
          /\ SlotValue(plates', params', objs', boxes', StoreRef, ctl.node.var)
               = SlotValue(plates, params, objs, boxes, StoreRef, ctl.node.var)]_vars

\* both operands of a / or a % are evaluated, they are ints and the right
\* one is 0
DivisionByZero ==
    /\ Back("val", "binr")
    /\ Top(kont).node.o \in {"/", "%"}
    /\ boxes[Top(kont).left].kind = "int"
    /\ boxes[ctl.box].kind = "int"
    /\ boxes[ctl.box].i = 0

\* C22: a division or a modulo by zero goes to the error sink with the
\* error kind FAULT, and the run never ends with an exception that was not
\* reported.
DivisionByZeroIsFault ==
    /\ [][DivisionByZero =>
            /\ ctl'.m = "raise" /\ ctl'.exc = "RuntimeError"
            /\ errType' = "FAULT"]_vars
    /\ [](phase = "crash" => ctl.exc # "ZeroDivisionError")

\* the method of the part under trial exists and its formals refuse the
\* arguments of the call
SignatureRejected ==
    /\ Running
    /\ ctl.m = "call"
    /\ HasMethod(ClassOfObj(ctl.call.self), ctl.call.name)
    /\ ~ Accepts(ctl.call.self, ctl.call.name, ctl.call.args)

\* no part on the chain o, parent(o), ... has a method of that name
RECURSIVE NoneDefines(_, _)
NoneDefines(o, name) ==
    o = 0 \/ (~ HasMethod(ClassOfObj(o), name) /\ NoneDefines(objs[o].parent, name))

\* the body that starts was reached over refusals of the formals and missing
\* methods only
ReachedBySignature ==
    /\ Running
    /\ ctl.m = "call"
    /\ ctl'.m = "stmt"
    /\ \A k \in 1..Len(ctl.call.swallowed) :
          ctl.call.swallowed[k] \in {"KeyError", "ValueError", "NameError"}

Printed(s) == \E k \in 1..Len(out) : out[k] = s

\* C24: the body of at most one method of the chain runs for a call: a body
\* never starts after another body of the same dispatch has run and was
\* passed over for its return value, and a method that is passed over has
\* printed nothing, so of student.r and person.r only one prints.
OneBodyPerCall ==
    /\ [][(Running /\ ctl.m = "call" /\ ctl'.m = "stmt")
            => \A k \in 1..Len(ctl.call.swallowed) : ctl.call.swallowed[k] # "TypeError"]_vars
    /\ [](ThisProgram(PFall) => ~ (Printed("student.r") /\ Printed("person.r")))

\* the dispatch has passed over a method for the value it returned
ReturnRefused(c) == \E k \in 1..Len(c.swallowed) : c.swallowed[k] = "TypeError"

\* C25: a call whose selected method returned a value its return type
\* refuses, with no accepting method further up, ends as a TYPE error: the
\* exception that leaves the last class of the chain is then the TypeError,
\* and PRetType, where every call is of this kind, ends with TYPE for the
\* class without a parent and for the class with one.
ReturnMismatchIsTypeError ==
    /\ [][(/\ Running /\ ctl.m = "call" /\ ctl'.m = "raise"
           /\ objs[ctl.call.self].parent = 0
           /\ ReturnRefused(ctl.call))
            => ctl'.exc = "TypeError"]_vars
    /\ []((ThisProgram(PRetType) /\ phase = "error") => errType = "TYPE")

\* a step that reads variables for a set, for the parameters of a call or
\* for the value a method returns
ReadingStep ==
    /\ Running
    /\ \/ Back("val", "set")
       \/ ctl.m = "call"
       \/ Back("order", "instr")

\* C26: a set from a variable, the passing of a variable as an argument and
\* the return of a variable leave every field that is not the one assigned
\* as it was, in its value and in the type tag the value carries; so in
\* PAlias the (set z y) that follows the reads of y succeeds.
ReadLeavesVariable ==
    /\ [][ReadingStep =>
            \A o \in 1..Len(objs) : \A n \in DOMAIN objs[o].fields :
                (StoreRef = [w |-> "field", id |-> o] /\ Top(kont).name = n)
                \/ FieldOf(objs', boxes', o, n) = FieldOf(objs, boxes, o, n)]_vars
    /\ []((ThisProgram(PAlias) /\ Finished) => phase = "done")

\* the class types an operand has: the declared type its value carries and
\* the class of the object
OperandTypes(b) ==
    (IF b.btype # "" THEN {b.btype} ELSE {})
        \cup (IF b.kind = "obj" THEN {objs[b.i].name} ELSE {})

\* both operands have a type and no type of one derives from a type of the other
NotRelated(l, r) ==
    /\ OperandTypes(l) # {} /\ OperandTypes(r) # {}
    /\ \A tl \in OperandTypes(l) : \A tr \in OperandTypes(r) :
          ~ (IsInstanceClass(classes, tl, tr) \/ IsInstanceClass(classes, tr, tl))

\* == or != is about to be applied to two operands that are objects or null
ComparesRefs ==
    /\ Back("val", "binr")
    /\ Top(kont).node.o \in {"==", "!="}
    /\ IsRef(boxes[Top(kont).left]) /\ IsRef(boxes[ctl.box])

\* C27: == and != on objects and null give the identity of the references
\* when the operands are related by inheritance, and are a TYPE error when
\* they are not, however the operands were produced.
ObjectComparison ==
    [][ComparesRefs =>
         LET l == boxes[Top(kont).left]
             r == boxes[ctl.box]
         IN IF NotRelated(l, r)
            THEN TypeErrorStep
            ELSE /\ ctl'.m = "val"
                 /\ boxes'[ctl'.box].kind = "bool"
                 /\ (boxes'[ctl'.box].i = 1)
                      <=> ((Top(kont).node.o = "==") <=> (l.kind = r.kind /\ l.i = r.i))]_vars

\* control is in a handler of the method invocation in progress itself
InOwnHandler ==
    \E i \in (Nearest("instr", Len(kont)) + 1)..Len(kont) : kont[i].f = "except"

\* C28: where exception is evaluated outside the handlers of the method
\* invocation in progress it is not bound, also when the method was called
\* from a handler; so peek of PLeak, called from the handler of main, ends
\* in a NAME error after show has printed the string passed as an argument.
ExceptionStaysInCaller ==
    /\ (AtExpr("exception") /\ ~ InOwnHandler) => ctl.env.exception = 0
    /\ (ThisProgram(PLeak) /\ Finished) =>
           /\ phase = "error" /\ errType = "NAME"
           /\ out = <<"passed boom">>

\* the part of the object whose method the invocation in progress runs
DefiningPart(n) == kont[Nearest("instr", n)].call.self

\* part a is above part o on the chain of parents
RECURSIVE IsAbove(_, _)
IsAbove(a, o) ==
    /\ objs[o].parent # 0
    /\ (objs[o].parent = a \/ IsAbove(a, objs[o].parent))

\* the call in progress was made on super
CallOnSuper ==
    /\ Nearest("callsite", Len(kont)) # 0
    /\ kont[Nearest("callsite", Len(kont))].node.target.op = "super"

\* C29: in a method found in class C, super is the parent part of C,
\* whatever the class of the receiver: a call on super starts at that part
\* and runs bodies of proper ancestors of C only, and super in a class
\* without a parent is a TYPE error.  In PSuper3 the calls on super in
\* person's methods reach mammal for a student, and main has no super.
SuperIsOfDefiningClass ==
    /\ [][(AtExpr("super") /\ Nearest("instr", Len(kont)) # 0) =>
            IF objs[DefiningPart(Len(kont))].parent = 0
            THEN TypeErrorStep
            ELSE /\ ctl'.m = "val"
                 /\ boxes'[ctl'.box].kind = "obj"
                 /\ boxes'[ctl'.box].i = objs[DefiningPart(Len(kont))].parent
                 /\ boxes'[ctl'.box].is_super]_vars
    /\ [][(Running /\ ctl.m = "call_method" /\ ctl.call.swallowed = <<>> /\ CallOnSuper) =>
            /\ ctl.call.self = objs[DefiningPart(Len(kont) - 1)].parent
            /\ ~ ctl.call.first_call]_vars
    /\ [][(Running /\ ctl.m = "call" /\ ctl'.m = "stmt" /\ CallOnSuper) =>
            /\ IsAbove(ctl.call.self, DefiningPart(Nearest("callsite", Len(kont)) - 1))
            /\ ctl'.env.me = kont[Nearest("callsite", Len(kont))].env.me]_vars
    /\ []((ThisProgram(PSuper3) /\ Finished) =>
            /\ phase = "error" /\ errType = "TYPE"
            /\ out = <<"student", "person", "mammal", "mammal", "mammal kind">>)

\* a method of mammal runs for a student, called on super by a method of person
SuperIsOfDefiningClassWitness ==
    /\ Running
    /\ ctl.m = "stmt"
    /\ Top(kont).f = "instr"
    /\ CallOnSuper
    /\ objs[Top(kont).call.self].name = "mammal"
    /\ objs[DefiningPart(Nearest("callsite", Len(kont)) - 1)].name = "person"
    /\ objs[ctl.env.me].name = "student"

\* new is about to be applied to an instantiation of a template of the program
NewOfInstantiation ==
    /\ AtExpr("new")
    /\ ctl.node.name \in Compound
    /\ T2L(ctl.node.name)[1] \in DOMAIN templates
    /\ templates[T2L(ctl.node.name)[1]].built

\* C30: the compile of an instantiation of a template ends with the class
\* registered or with a TYPE error, also when the body of the template names
\* an instantiation of itself or two templates name instantiations of each
\* other: no compile ends because the calls one inside the other have no end.
TemplateCompilationEnds ==
    /\ NewOfInstantiation =>
          LET r == CompileAgain(ctl.node.name)
          IN IF Failed(r.e) THEN r.e.err = "TYPE" ELSE ctl.node.name \in DOMAIN r.reg
    /\ ctl.m = "raise" => ctl.exc # "RecursionError"
====
